---- MODULE Spec2Model ----
(***************************************************************************)
(* GibberWallet: the acoustic request/response protocol between an offline *)
(* signer (NodePoC OfflineWallet, mobile OfflineWallet) and an online      *)
(* client (NodePoC OnlineClient, gibberweb WalletClient).                  *)
(*                                                                         *)
(* SpecSigner  : one signer device (either implementation) fed with        *)
(*               decoded envelopes and user input.                         *)
(* SpecClient  : one client device (either implementation) running request *)
(*               operations against an arbitrary peer and channel.         *)
(* SpecClientFair : SpecClient with the fairness of timers, playback and   *)
(*               the broadcaster.                                          *)
(***************************************************************************)
EXTENDS Integers, Sequences, FiniteSets, TLC

(***************************************************************************)
(* Bounds of the model.                                                    *)
(***************************************************************************)
\* envelopes the environment delivers to the signer
MaxDeliveries == 2
\* distinct envelope ids the peer uses
NumPeerIds == 2
\* transmissions of the signer after which the user stops pressing buttons
MaxTransmissions == 3

\* frames the recorder delivers
MaxFrames == 3

\* startListening calls
MaxStarts == 2

\* transmit calls made on one device
MaxSends == 3

\* samples of a frame that is shorter than a quarter of a second
ShortFrame == 8000

\* samples of a frame that holds a whole message
LongFrame == 40000

\* envelopes the environment delivers to the client
MaxClientDeliveries == 3
\* request operations the client runs
MaxOps == 2
\* waitForMessage calls on one SoundProtocol
MaxWaits == 3
\* calls of initialize, start and stop on the mobile wallet
MaxWalletCalls == 4

(***************************************************************************)
(* Envelopes (message-protocol).                                           *)
(***************************************************************************)
PROTOCOL_VERSION == "1.0"

\* versions seen on the wire: the supported one and an unsupported one
Versions == {PROTOCOL_VERSION, "2.0"}

\* a missing id (null / undefined / empty string: all falsy)
Null == <<"none", 0>>

PeerIds == {<<"peer", k>> : k \in 1..NumPeerIds}

\* the n-th value uuidv4() returns on the device
uuidv4(n) == <<"uuid", n>>

\* no message (null)
NoMsg == [type |-> "none"]

\* an object without the property asked for
Has(obj, field) == field \in DOMAIN obj

\* new Message(version, type, payload, id): id || uuidv4()
Message(version, type, payload, id, uuid) ==
    [version |-> version, type |-> type, payload |-> payload,
     id |-> IF id # Null THEN id ELSE uuid]

\* undefined, as the value of each field of a message
Undefined(field) ==
    IF field = "id" THEN Null
    ELSE IF field = "payload" THEN [undefined |-> TRUE]
    ELSE "undefined"

\* data[field]: undefined when the object has no such property
Field(data, field) ==
    IF Has(data, field) THEN data[field] ELSE Undefined(field)

\* the text no JSON.parse accepts
NotJSON == << <<"SyntaxError", "SyntaxError">> >>

\* JSON.stringify of an object given as its members in order: a member whose
\* value is undefined is left out
JSON_stringify(members) ==
    SelectSeq(members, LAMBDA member : member[2] # Undefined(member[1]))

\* JSON.parse of a JSON text: the object with the text's members (of a
\* repeated name the last one counts)
JSON_parse(text) ==
    [name \in {text[k][1] : k \in 1..Len(text)} |->
        LET last == CHOOSE k \in 1..Len(text) :
                        /\ text[k][1] = name
                        /\ \A j \in (k + 1)..Len(text) : text[j][1] # name
        IN  text[last][2]]

\* a toJSON that leaves the id out of the text
toJSON_withoutId(message) ==
    JSON_stringify(<< <<"version", message.version>>,
                      <<"type", message.type>>,
                      <<"payload", message.payload>> >>)

\* message.toJSON()
toJSON(message) ==
    JSON_stringify(<< <<"version", message.version>>,
                      <<"type", message.type>>,
                      <<"payload", message.payload>>,
                      <<"id", message.id>> >>)

\* Message.fromJSON applied to the parsed object data
fromJSON(data, uuid) ==
    Message(Field(data, "version"), Field(data, "type"),
            Field(data, "payload"), Field(data, "id"), uuid)

createConnectResponse(address, connectId, uuid) ==
    Message(PROTOCOL_VERSION, "connect_response",
            [address |-> address, received_id |-> connectId], Null, uuid)

\* a createPong that reuses the ping's id as its own
createPong_selfReference(pingId, uuid) ==
    Message(PROTOCOL_VERSION, "pong", [received_id |-> pingId], pingId, uuid)

createPong(pingId, uuid) ==
    Message(PROTOCOL_VERSION, "pong", [received_id |-> pingId], Null, uuid)

createConnect(uuid) == Message(PROTOCOL_VERSION, "connect", <<>>, Null, uuid)

createPing(uuid) == Message(PROTOCOL_VERSION, "ping", <<>>, Null, uuid)

\* createTxRequest around the transaction object tx: a descriptor in the
\* signer and the client, the encoded fields of TransactionData elsewhere
createTxRequest(tx, uuid) ==
    Message(PROTOCOL_VERSION, "tx_request", [transaction |-> tx], Null, uuid)

createTxResponse(signedTx, txHash, uuid) ==
    Message(PROTOCOL_VERSION, "tx_response",
            [signedTransaction |-> [raw |-> signedTx, hash |-> txHash]],
            Null, uuid)

\* a createError that stamps the envelope with another version
createError_otherVersion(message, receivedId, uuid) ==
    Message("2.0", "error",
            IF receivedId # Null
              THEN [message |-> message, received_id |-> receivedId]
              ELSE [message |-> message],
            Null, uuid)

createError(message, receivedId, uuid) ==
    Message(PROTOCOL_VERSION, "error",
            IF receivedId # Null
              THEN [message |-> message, received_id |-> receivedId]
              ELSE [message |-> message],
            Null, uuid)

\* a validateVersion that accepts every version seen on the wire
validateVersion_lenient(message) == message.version \in Versions

validateVersion(message) == message.version = PROTOCOL_VERSION

(***************************************************************************)
(* The external signer: raw signed transaction and hash of a descriptor.   *)
(***************************************************************************)
\* transaction descriptors: the k-th request of the peer asks for the k-th
Txs == {<<"tx", k>> : k \in 1..NumPeerIds}

\* ethers' signTransaction: a raw transaction and a hash fixed by the descriptor
signTransaction(tx) == [raw |-> <<"raw", tx[2]>>, hash |-> <<"hash", tx[2]>>]

(***************************************************************************)
(* State.                                                                  *)
(***************************************************************************)
VARIABLES
    sImpl,              \* signer implementation: "node" or "mobile"
    sUuid,              \* uuids the signer has drawn
    rlQuestion,         \* node: request whose question readline holds
    sDisplayed,         \* node: request the console displayed last
    currentTransaction, \* mobile: WalletScreen's currentTransaction
    sOut,               \* signer: transmissions, in order
    sReceived,          \* signer: number of envelopes received
    sLast,              \* signer: the envelope received last
    sApproved,          \* requests the user approved
    sBusyArrivals,      \* requests that arrived during another's approval
    cImpl,              \* client implementation: "node" or "web"
    cPc,                \* where the request operation stands
    cOp,                \* request operations started
    cUuid,              \* uuids the client has drawn
    isListening,        \* SoundProtocol / AudioProtocol isListening
    receivedCallback,   \* node: SoundProtocol.receivedCallback
    connectedWalletAddress, \* node: OnlineClient.connectedWalletAddress
    cConnect,           \* the handshake envelope of the operation
    cTxRequest,         \* the tx_request envelope of the operation
    cAck,               \* the envelope that resolved the handshake wait
    cResponse,          \* the envelope that resolved the response wait
    cErrorSeen,         \* an error for the tx_request arrived in the wait
    cRaw,               \* what the operation handed to the broadcaster
    cBroadcastOk,       \* the broadcaster accepted it
    cResult,            \* what the operation returned
    cSent,              \* client: transmissions, in order
    cDelivered,         \* client: number of envelopes received
    cLast               \* client: the envelope received last, and who got it

signerVars == <<sImpl, sUuid, rlQuestion, sDisplayed, currentTransaction,
                sOut, sReceived, sLast, sApproved, sBusyArrivals>>

clientVars == <<cImpl, cPc, cOp, cUuid, isListening, receivedCallback,
                connectedWalletAddress, cConnect, cTxRequest, cAck, cResponse,
                cErrorSeen, cRaw, cBroadcastOk, cResult, cSent, cDelivered, cLast>>

\* Message serialisation (toJSON / fromJSON) applied to one message or text
VARIABLES
    original,           \* the message constructed
    json,               \* the text: toJSON's result, or a received text
    parsed,             \* the message fromJSON returned
    thrown,             \* the error fromJSON threw
    mUuid,              \* uuids the Message constructor has drawn
    txArgs              \* the arguments createTxRequest was called with

messageVars == <<original, json, parsed, thrown, mUuid, txArgs>>

\* SoundProtocol: initialisation, capture and the accumulation buffer
\* (isListening and receivedCallback are declared with the client)
VARIABLES
    isInitialized,      \* SoundProtocol.isInitialized
    initializing,       \* initializeAsync has not finished
    starting,           \* startListening calls waiting for initialisation
    recording,          \* SoundProtocol.recording is set
    leaked,             \* captures running that recording no longer names
    audioBuffer,        \* SoundProtocol.audioBuffer, as the frames pushed
    delivered,          \* calls of the receive callback, in order
    lastCall,           \* what ran last on the adapter, and its outcome
    frames,             \* frames captured
    starts              \* startListening calls made

adapterVars == <<isInitialized, initializing, starting, recording, leaked,
                 audioBuffer, delivered, lastCall, frames, starts>>

\* SoundProtocol.sendMessage, AudioProtocol.sendMessage and
\* GGWaveModule.transmitMessage: the transmit calls made on one device
VARIABLES
    device,             \* "node", "web" or "mobile"
    calls               \* the transmit calls, in order, and where each stands

transmitVars == <<device, calls>>

VARIABLES
    waits,              \* the waitForMessage calls made, and how each ended
    mobileWallet        \* the mobile OfflineWallet: crypto, isRunning, and
                        \* the flags of its native ggwave module

\* the adapter's variables other than isInitialized
adapterRest == <<initializing, starting, recording, leaked, audioBuffer,
                 delivered, lastCall, frames, starts>>

\* the client's variables other than the adapter's two
clientRest == <<cImpl, cPc, cOp, cUuid, connectedWalletAddress, cConnect,
                cTxRequest, cAck, cResponse, cErrorSeen, cRaw, cBroadcastOk,
                cResult, cSent, cDelivered, cLast>>

vars == <<signerVars, clientVars, messageVars, adapterVars, transmitVars,
          waits, mobileWallet>>

(***************************************************************************)
(* Signer: what the capture loop can decode.                               *)
(***************************************************************************)
SignerInputs ==
    { [version |-> v, type |-> t, payload |-> <<>>, id |-> i] :
        v \in Versions, t \in {"connect", "ping", "bogus"}, i \in PeerIds }
    \cup
    { [version |-> v, type |-> "tx_request",
       payload |-> [transaction |-> <<"tx", i[2]>>], id |-> i] :
        v \in Versions, i \in PeerIds }

\* one transmission: the envelope, the received message it answers, and
\* whether playback went through
Sent(msg, about, played) == [msg |-> msg, about |-> about, played |-> played]

\* the request whose approval is pending, NoMsg when there is none
Pending == IF sImpl = "node" THEN rlQuestion ELSE currentTransaction

\* the request the user is looking at
Presented == IF sImpl = "node" THEN sDisplayed ELSE currentTransaction

AwaitingApproval == Pending # NoMsg

InitSigner ==
    /\ sImpl \in {"node", "mobile"}
    /\ sUuid = 0
    /\ rlQuestion = NoMsg
    /\ sDisplayed = NoMsg
    /\ currentTransaction = NoMsg
    /\ sOut = <<>>
    /\ sReceived = 0
    /\ sLast = NoMsg
    /\ sApproved = {}
    /\ sBusyArrivals = {}

\* uuids Message.fromJSON draws for data: one when data carries no id
Drawn(data) == IF data.id = Null THEN 1 ELSE 0

\* an arrival counts as a second request when another id is pending
SecondRequest(message) ==
    IF AwaitingApproval /\ Pending.id # message.id
      THEN sBusyArrivals \cup {message}
      ELSE sBusyArrivals

(***************************************************************************)
(* NodePoC signer: OfflineWallet (offline-wallet.js).                      *)
(***************************************************************************)
\* a handleConnect that replies only when no approval is pending
handleConnect_whenIdle(message, n, played) ==
    /\ sOut' = IF rlQuestion = NoMsg
                 THEN Append(sOut,
                        Sent(createConnectResponse("0xWallet", message.id,
                                                   uuidv4(n)),
                             message, played))
                 ELSE sOut
    /\ sUuid' = n + 1
    /\ UNCHANGED <<rlQuestion, sDisplayed, sBusyArrivals>>

\* handleConnect: reply with the wallet address
handleConnect(message, n, played) ==
    /\ sOut' = Append(sOut,
           Sent(createConnectResponse("0xWallet", message.id, uuidv4(n)),
                message, played))
    /\ sUuid' = n + 1
    /\ UNCHANGED <<rlQuestion, sDisplayed, sBusyArrivals>>

\* handleTransactionRequest up to the await of getUserConfirmation: the
\* transaction is displayed and rl.question is called; readline keeps a
\* single question callback and drops a question asked while one is pending
handleTransactionRequest(message, n) ==
    /\ sDisplayed' = message
    /\ rlQuestion' = IF rlQuestion = NoMsg THEN message ELSE rlQuestion
    /\ sBusyArrivals' = SecondRequest(message)
    /\ sUuid' = n
    /\ UNCHANGED sOut

\* handleMessage for one decoded envelope
handleMessage(data, played) ==
    /\ sImpl = "node"
    /\ sReceived < MaxDeliveries
    /\ LET message == fromJSON(data, uuidv4(sUuid))
           n == sUuid + Drawn(data)
       IN  /\ sReceived' = sReceived + 1
           /\ sLast' = message
           /\ IF ~validateVersion(message)
                THEN /\ sOut' = Append(sOut,
                            Sent(createError("Unsupported protocol version",
                                             message.id, uuidv4(n)),
                                 message, played))
                     /\ sUuid' = n + 1
                     /\ UNCHANGED <<rlQuestion, sDisplayed, sBusyArrivals>>
                ELSE IF message.type = "connect"
                  THEN handleConnect(message, n, played)
                ELSE IF message.type = "tx_request"
                  THEN handleTransactionRequest(message, n)
                ELSE /\ sUuid' = n
                     /\ UNCHANGED <<sOut, rlQuestion, sDisplayed,
                                    sBusyArrivals>>
    /\ UNCHANGED <<sImpl, currentTransaction, sApproved, clientVars, messageVars, transmitVars, waits, mobileWallet, adapterVars>>

\* what the user can type at the prompt
Answers == {"y", "yes", "n", "no", "what"}

\* the user means to approve
UserApproves(answer) == answer \in {"y", "yes"}

\* a confirmation that takes every answer but a refusal for a yes
getUserConfirmation_unlessNo(answer) ==
    IF answer \in {"n", "no"} THEN "false" ELSE "true"

\* getUserConfirmation's reading of one answer: "true", "false", or "ask"
\* (the question is asked again)
getUserConfirmation(answer) ==
    IF answer \in {"y", "yes"} THEN "true"
    ELSE IF answer \in {"n", "no"} THEN "false"
    ELSE "ask"

\* the user answers the pending question; handleTransactionRequest resumes:
\* sign and send tx_response, or send the rejection, or (signing throws)
\* send the processing error
answerConfirmation(answer, signOk, played) ==
    /\ sImpl = "node"
    /\ rlQuestion # NoMsg
    /\ LET message == rlQuestion
           confirmed == getUserConfirmation(answer)
           signedTx == signTransaction(message.payload.transaction)
           reply ==
             IF confirmed = "true" /\ signOk
               THEN createTxResponse(signedTx.raw, signedTx.hash,
                                     uuidv4(sUuid))
             ELSE IF confirmed = "true"
               THEN createError("Transaction processing failed",
                                message.id, uuidv4(sUuid))
             ELSE createError("Transaction rejected by user",
                              message.id, uuidv4(sUuid))
       IN  /\ sApproved' = IF UserApproves(answer)
                             THEN sApproved \cup {message} ELSE sApproved
           /\ IF confirmed = "ask"
                THEN UNCHANGED <<rlQuestion, sOut, sUuid>>
                ELSE /\ rlQuestion' = NoMsg
                     /\ sOut' = Append(sOut, Sent(reply, message, played))
                     /\ sUuid' = sUuid + 1
    /\ UNCHANGED <<sImpl, sDisplayed, currentTransaction, sReceived, sLast,
                   sBusyArrivals, clientVars, messageVars, transmitVars, waits, mobileWallet, adapterVars>>

(***************************************************************************)
(* Mobile signer: OfflineWallet (OfflineWallet.ts) and WalletScreen.       *)
(***************************************************************************)
\* handlePing: reply with pong
handlePing(message, n, played) ==
    /\ sOut' = Append(sOut,
           Sent(createPong(message.id, uuidv4(n)), message, played))
    /\ sUuid' = n + 1
    /\ UNCHANGED <<currentTransaction, sBusyArrivals>>

\* handleTransactionRequest emits 'transactionRequest'; WalletScreen's
\* listener stores the request with setCurrentTransaction
Mobile_handleTransactionRequest(message, n) ==
    /\ currentTransaction' = message
    /\ sBusyArrivals' = SecondRequest(message)
    /\ sUuid' = n
    /\ UNCHANGED sOut

\* handleAudioMessage for one decoded envelope
handleAudioMessage(data, played) ==
    /\ sImpl = "mobile"
    /\ sReceived < MaxDeliveries
    /\ LET message == fromJSON(data, uuidv4(sUuid))
           n == sUuid + Drawn(data)
       IN  /\ sReceived' = sReceived + 1
           /\ sLast' = message
           /\ IF ~validateVersion(message)
                THEN /\ sUuid' = n
                     /\ UNCHANGED <<sOut, currentTransaction, sBusyArrivals>>
                ELSE IF message.type = "ping"
                  THEN handlePing(message, n, played)
                ELSE IF message.type = "tx_request"
                  THEN Mobile_handleTransactionRequest(message, n)
                ELSE /\ sUuid' = n
                     /\ UNCHANGED <<sOut, currentTransaction, sBusyArrivals>>
    /\ UNCHANGED <<sImpl, rlQuestion, sDisplayed, sApproved, clientVars, messageVars, transmitVars, waits, mobileWallet, adapterVars>>

\* the user confirms Approve: WalletScreen.approveTransaction calls
\* wallet.approveTransaction(currentTransaction.message)
approveTransaction(signOk, played, errPlayed) ==
    /\ sImpl = "mobile"
    /\ currentTransaction # NoMsg
    /\ Len(sOut) < MaxTransmissions
    /\ LET message == currentTransaction
           signedTx == signTransaction(message.payload.transaction)
           response == createTxResponse(signedTx.raw, signedTx.hash,
                                        uuidv4(sUuid))
       IN  /\ sApproved' = sApproved \cup {message}
           /\ IF signOk /\ played
                THEN \* result.success: returns true, the request is cleared
                     /\ sOut' = Append(sOut, Sent(response, message, TRUE))
                     /\ sUuid' = sUuid + 1
                     /\ currentTransaction' = NoMsg
                ELSE IF signOk
                  THEN \* transmission failed: throws, the catch sends error
                     /\ sOut' = sOut \o
                          << Sent(response, message, FALSE),
                             Sent(createError("Transaction signing failed",
                                              message.id, uuidv4(sUuid + 1)),
                                  message, errPlayed) >>
                     /\ sUuid' = sUuid + 2
                     /\ UNCHANGED currentTransaction
                ELSE \* signing throws: the catch sends error
                     /\ sOut' = Append(sOut,
                            Sent(createError("Transaction signing failed",
                                             message.id, uuidv4(sUuid)),
                                 message, errPlayed))
                     /\ sUuid' = sUuid + 1
                     /\ UNCHANGED currentTransaction
    /\ UNCHANGED <<sImpl, rlQuestion, sDisplayed, sReceived, sLast,
                   sBusyArrivals, clientVars, messageVars, transmitVars, waits, mobileWallet, adapterVars>>

\* the user confirms Reject: WalletScreen.rejectTransaction calls
\* wallet.rejectTransaction(currentTransaction.message)
rejectTransaction(played) ==
    /\ sImpl = "mobile"
    /\ currentTransaction # NoMsg
    /\ Len(sOut) < MaxTransmissions
    /\ sOut' = Append(sOut,
           Sent(createError("Transaction rejected by user",
                            currentTransaction.id, uuidv4(sUuid)),
                currentTransaction, played))
    /\ sUuid' = sUuid + 1
    /\ currentTransaction' = NoMsg
    /\ UNCHANGED <<sImpl, rlQuestion, sDisplayed, sReceived, sLast, sApproved,
                   sBusyArrivals, clientVars, messageVars, transmitVars, waits, mobileWallet, adapterVars>>

(***************************************************************************)
(* Client: what the capture loop can decode, and the operation's result.   *)
(***************************************************************************)
\* OnlineClient's soundRetries (SOUND_RETRIES): the configured retries
soundRetries == 3

\* the id the peer stamps on an envelope it sends in reply to an envelope
\* of the client's operation op (one id per answered operation)
PeerEnvelopeId(op) == <<"peer", op>>

\* the operation whose envelope the peer answered with message
AnsweredOp(message) == message.id[2]

\* the descriptor the client asks a signature for
RequestedTx == <<"tx", 1>>

\* an empty raw string (falsy)
EmptyRaw == <<"raw", 0>>

\* nothing handed to the broadcaster
NoRaw == <<"raw", -1>>

\* no wallet address (null: falsy)
NoAddress == ""

\* envelopes a peer can send in reply to the envelope sent of operation op:
\* an acknowledgement of a handshake envelope, a tx_response for a
\* tx_request, or an error that references it
RepliesTo(sent, op) ==
    (IF sent.type \in {"connect", "ping"}
       THEN { [version |-> v, type |-> "connect_response",
               payload |-> [address |-> "0xWallet", received_id |-> sent.id],
               id |-> PeerEnvelopeId(op)] : v \in Versions }
            \cup
            { [version |-> v, type |-> "pong",
               payload |-> [received_id |-> sent.id],
               id |-> PeerEnvelopeId(op)] : v \in Versions }
       ELSE { [version |-> v, type |-> "tx_response", payload |-> p,
               id |-> PeerEnvelopeId(op)] :
                v \in Versions,
                p \in { [signedTransaction |-> signTransaction(RequestedTx)],
                        [signedTransaction |->
                            [raw |-> EmptyRaw, hash |-> <<"hash", 0>>]],
                        [signed_transaction |->
                            signTransaction(RequestedTx).raw],
                        <<>> } })
    \cup
    { [version |-> v, type |-> "error",
       payload |-> [message |-> "Transaction rejected by user",
                    received_id |-> sent.id],
       id |-> PeerEnvelopeId(op)] : v \in Versions }

\* what the peer and the channel can make the client decode now: replies to
\* the envelopes played so far, those of earlier operations included
ClientInputs ==
    UNION { RepliesTo(cSent[k].msg, cSent[k].op) :
              k \in {j \in 1..Len(cSent) : cSent[j].played} }

\* the value a request operation returns: null / { success: false, error }
\* on failure (with the line logged, or the error text), the hash on success
Result(success, reason) == [success |-> success, reason |-> reason]

NoResult == Result(FALSE, "none")

\* SoundProtocol.receivedCallback values
NoCallback == [fn |-> "null"]

\* (message) => this.handleResponse(message)
handleResponse == [fn |-> "handleResponse"]

\* an error envelope that answers the operation's tx_request
AnswersRequest(message) ==
    /\ message.type = "error"
    /\ Has(message.payload, "received_id")
    /\ cTxRequest # NoMsg
    /\ message.payload.received_id = cTxRequest.id

\* WalletClient.handleMessage, registered with audio.on('message', ...)
handleMessage_web == [fn |-> "handleMessage"]

\* one envelope decoded by the client's capture loop: the type a pending
\* waitForMessage expected ("none" without one), whether it resolved the
\* wait, and the general handler that was called with it
Delivery(message, pending, resolved, forwardedTo) ==
    [message |-> message, pending |-> pending, resolved |-> resolved,
     forwardedTo |-> forwardedTo]

NoDelivery == Delivery(NoMsg, "none", FALSE, NoCallback)

\* the type the operation's pending waitForMessage expects
PendingWait ==
    IF cPc = "waitConnect"
      THEN (IF cImpl = "node" THEN "connect_response" ELSE "pong")
    ELSE IF cPc = "waitTx" THEN "tx_response"
    ELSE "none"

InitClient ==
    /\ cImpl \in {"node", "web"}
    /\ cPc = "idle"
    /\ cOp = 0
    /\ cUuid = 0
    /\ isListening = FALSE
    /\ receivedCallback = NoCallback
    /\ connectedWalletAddress = NoAddress
    /\ cConnect = NoMsg
    /\ cTxRequest = NoMsg
    /\ cAck = NoMsg
    /\ cResponse = NoMsg
    /\ cErrorSeen = FALSE
    /\ cRaw = NoRaw
    /\ cBroadcastOk = FALSE
    /\ cResult = NoResult
    /\ cSent = <<>>
    /\ cDelivered = 0
    /\ cLast = NoDelivery

\* one transmission of the client in operation op
ClientSent(msg, played) == [msg |-> msg, op |-> cOp, played |-> played]

(***************************************************************************)
(* NodePoC client: OnlineClient.sendTransactionRequest over SoundProtocol. *)
(***************************************************************************)
\* a waitForMessage that forgets the callback registered so far
waitForMessage_forgetting(expectedType) ==
    [fn |-> "messageCallback", expectedType |-> expectedType,
     originalCallback |-> NoCallback]

\* SoundProtocol.waitForMessage: installs messageCallback over the callback
\* registered so far
waitForMessage(expectedType) ==
    [fn |-> "messageCallback", expectedType |-> expectedType,
     originalCallback |-> receivedCallback]

\* a return that skips the finally block
return_listening(result) ==
    /\ cResult' = result
    /\ cPc' = "done"
    /\ UNCHANGED isListening

\* the operation returns: the finally block runs stopListening
return(result) ==
    /\ cResult' = result
    /\ isListening' = FALSE
    /\ cPc' = "done"

\* sendTransactionRequest(txRequest) is called: startListening registers
\* handleResponse, and the handshake is skipped when an address is known
sendTransactionRequest ==
    /\ cImpl = "node"
    /\ cPc \in {"idle", "done"}
    /\ cOp < MaxOps
    /\ cOp' = cOp + 1
    /\ cTxRequest' = createTxRequest(RequestedTx, uuidv4(cUuid))
    /\ IF isListening
         THEN UNCHANGED <<isListening, receivedCallback>>
         ELSE /\ isListening' = TRUE
              /\ receivedCallback' = handleResponse
    /\ IF connectedWalletAddress = NoAddress
         THEN /\ cConnect' = createConnect(uuidv4(cUuid + 1))
              /\ cUuid' = cUuid + 2
              /\ cPc' = "sendConnect"
         ELSE /\ cConnect' = NoMsg
              /\ cUuid' = cUuid + 1
              /\ cPc' = "sendTx"
    /\ cAck' = NoMsg
    /\ cResponse' = NoMsg
    /\ cErrorSeen' = FALSE
    /\ cRaw' = NoRaw
    /\ cBroadcastOk' = FALSE
    /\ cResult' = NoResult
    /\ UNCHANGED <<cImpl, connectedWalletAddress, cSent, cDelivered, cLast,
                   signerVars,
                   messageVars, transmitVars, waits, mobileWallet, adapterVars>>

\* connectToWallet() is called: startListening registers handleResponse and
\* a connect is sent; no tx_request belongs to the operation
connectToWallet ==
    /\ cImpl = "node"
    /\ cPc \in {"idle", "done"}
    /\ cOp < MaxOps
    /\ cOp' = cOp + 1
    /\ cTxRequest' = NoMsg
    /\ IF isListening
         THEN UNCHANGED <<isListening, receivedCallback>>
         ELSE /\ isListening' = TRUE
              /\ receivedCallback' = handleResponse
    /\ cConnect' = createConnect(uuidv4(cUuid))
    /\ cUuid' = cUuid + 1
    /\ cPc' = "sendConnect"
    /\ cAck' = NoMsg
    /\ cResponse' = NoMsg
    /\ cErrorSeen' = FALSE
    /\ cRaw' = NoRaw
    /\ cBroadcastOk' = FALSE
    /\ cResult' = NoResult
    /\ UNCHANGED <<cImpl, connectedWalletAddress, cSent, cDelivered, cLast,
                   signerVars, messageVars, transmitVars, waits, mobileWallet,
                   adapterVars>>

\* sendMessage(connect) completes: playback finished, or it failed
connectPlayed(played) ==
    /\ cImpl = "node"
    /\ cPc = "sendConnect"
    /\ cSent' = Append(cSent, ClientSent(cConnect, played))
    /\ IF played
         THEN /\ receivedCallback' = waitForMessage("connect_response")
              /\ cPc' = "waitConnect"
              /\ UNCHANGED <<cResult, isListening>>
         ELSE /\ return(Result(FALSE, "Failed to send connect request"))
              /\ UNCHANGED receivedCallback
    /\ UNCHANGED <<cImpl, cOp, cUuid, connectedWalletAddress, cConnect,
                   cTxRequest, cAck, cResponse, cErrorSeen, cRaw,
                   cBroadcastOk, cDelivered, cLast, signerVars,
                   messageVars, transmitVars, waits, mobileWallet, adapterVars>>

\* sendMessage(txRequest) completes
txRequestPlayed(played) ==
    /\ cImpl = "node"
    /\ cPc = "sendTx"
    /\ cSent' = Append(cSent, ClientSent(cTxRequest, played))
    /\ IF played
         THEN /\ receivedCallback' = waitForMessage("tx_response")
              /\ cPc' = "waitTx"
              /\ UNCHANGED <<cResult, isListening>>
         ELSE /\ return(Result(FALSE, "Failed to send transaction request"))
              /\ UNCHANGED receivedCallback
    /\ UNCHANGED <<cImpl, cOp, cUuid, connectedWalletAddress, cConnect,
                   cTxRequest, cAck, cResponse, cErrorSeen, cRaw,
                   cBroadcastOk, cDelivered, cLast, signerVars,
                   messageVars, transmitVars, waits, mobileWallet, adapterVars>>

\* a timer after which the tx_request is sent again
waitTimeout_resend ==
    /\ cImpl = "node"
    /\ cPc \in {"waitConnect", "waitTx"}
    /\ receivedCallback' = receivedCallback.originalCallback
    /\ IF cPc = "waitTx"
         THEN cPc' = "sendTx" /\ UNCHANGED <<cResult, isListening>>
         ELSE return(Result(FALSE, "No connect response received"))
    /\ UNCHANGED <<cImpl, cOp, cUuid, connectedWalletAddress, cConnect,
                   cTxRequest, cAck, cResponse, cErrorSeen, cRaw,
                   cBroadcastOk, cSent, cDelivered, cLast, signerVars,
                   messageVars, transmitVars, waits, mobileWallet, adapterVars>>

\* a timer that restores the callback and leaves the promise pending
waitTimeout_noResolve ==
    /\ cImpl = "node"
    /\ cPc \in {"waitConnect", "waitTx"}
    /\ receivedCallback.fn = "messageCallback"
    /\ receivedCallback' = receivedCallback.originalCallback
    /\ UNCHANGED <<cImpl, cPc, cOp, cUuid, isListening,
                   connectedWalletAddress, cConnect, cTxRequest, cAck,
                   cResponse, cErrorSeen, cRaw, cBroadcastOk, cResult, cSent,
                   cDelivered, cLast, signerVars,
                   messageVars, transmitVars, waits, mobileWallet, adapterVars>>

\* a timer that resolves the wait and leaves messageCallback registered
waitTimeout_keepCallback ==
    /\ cImpl = "node"
    /\ cPc \in {"waitConnect", "waitTx"}
    /\ return(Result(FALSE,
                     IF cPc = "waitConnect"
                       THEN "No connect response received"
                       ELSE "No transaction response received"))
    /\ UNCHANGED <<cImpl, cOp, cUuid, connectedWalletAddress, cConnect,
                   cTxRequest, cAck, cResponse, cErrorSeen, cRaw,
                   cBroadcastOk, cSent, cDelivered, cLast, receivedCallback,
                   signerVars, messageVars, transmitVars, waits, mobileWallet, adapterVars>>

\* the timer of the pending waitForMessage fires: the wait resolves to null
waitTimeout ==
    /\ cImpl = "node"
    /\ cPc \in {"waitConnect", "waitTx"}
    /\ receivedCallback' = receivedCallback.originalCallback
    /\ return(Result(FALSE,
                     IF cPc = "waitConnect"
                       THEN "No connect response received"
                       ELSE "No transaction response received"))
    /\ UNCHANGED <<cImpl, cOp, cUuid, connectedWalletAddress, cConnect,
                   cTxRequest, cAck, cResponse, cErrorSeen, cRaw,
                   cBroadcastOk, cSent, cDelivered, cLast, signerVars,
                   messageVars, transmitVars, waits, mobileWallet, adapterVars>>

\* the wait for connect_response resolved with message: the address is kept
\* and the tx_request is sent
connectResponseReceived(message) ==
    /\ cAck' = message
    /\ connectedWalletAddress' =
         IF Has(message.payload, "address")
           THEN message.payload.address ELSE NoAddress
    /\ IF cTxRequest = NoMsg
         THEN \* connectToWallet: return true
              return(Result(TRUE, "Connected to wallet"))
         ELSE cPc' = "sendTx" /\ UNCHANGED <<cResult, isListening>>
    /\ UNCHANGED <<cResponse, cRaw>>

\* the wait for tx_response resolved with response: the raw transaction is
\* extracted and handed to the broadcaster
txResponseReceived(response) ==
    /\ cResponse' = response
    /\ IF ~Has(response.payload, "signedTransaction")
         THEN \* signedTxData is undefined: TypeError, caught
              /\ return(Result(FALSE, "Error in transaction flow"))
              /\ UNCHANGED cRaw
         ELSE IF response.payload.signedTransaction.raw = EmptyRaw
           THEN /\ return(Result(FALSE, "No signed transaction in response"))
                /\ UNCHANGED cRaw
           ELSE /\ cRaw' = response.payload.signedTransaction.raw
                /\ cPc' = "broadcast"
                /\ UNCHANGED <<cResult, isListening>>
    /\ UNCHANGED <<cAck, connectedWalletAddress>>

\* the capture loop decodes message and calls receivedCallback(message)
receive(message) ==
    /\ cImpl = "node"
    /\ isListening
    /\ receivedCallback # NoCallback
    /\ cDelivered < MaxClientDeliveries
    /\ cDelivered' = cDelivered + 1
    /\ IF /\ receivedCallback.fn = "messageCallback"
          /\ message.type = receivedCallback.expectedType
         THEN /\ receivedCallback' = receivedCallback.originalCallback
              /\ IF cPc = "waitConnect"
                   THEN connectResponseReceived(message)
                   ELSE txResponseReceived(message)
              /\ cLast' = Delivery(message, PendingWait, TRUE, NoCallback)
              /\ UNCHANGED cErrorSeen
         ELSE \* originalCallback(message): handleResponse logs an error
              /\ cLast' =
                   Delivery(message, PendingWait, FALSE,
                            IF receivedCallback.fn = "messageCallback"
                              THEN receivedCallback.originalCallback
                              ELSE receivedCallback)
              /\ cErrorSeen' =
                   (cErrorSeen \/ (cPc = "waitTx" /\ AnswersRequest(message)))
              /\ UNCHANGED <<receivedCallback, cPc, cAck, cResponse, cRaw,
                             cResult, isListening, connectedWalletAddress>>
    /\ UNCHANGED <<cImpl, cOp, cUuid, cConnect, cTxRequest, cBroadcastOk,
                   cSent, signerVars,
                   messageVars, transmitVars, waits, mobileWallet, adapterVars>>

\* broadcastTransaction(signedTxRaw) returns the hash, or null on failure
broadcastTransaction(ok) ==
    /\ cImpl = "node"
    /\ cPc = "broadcast"
    /\ cBroadcastOk' = ok
    /\ return(IF ok THEN Result(TRUE, "Transaction broadcasted successfully")
                    ELSE Result(FALSE, "Failed to broadcast transaction"))
    /\ UNCHANGED <<cImpl, cOp, cUuid, receivedCallback,
                   connectedWalletAddress, cConnect, cTxRequest, cAck,
                   cResponse, cErrorSeen, cRaw, cSent, cDelivered, cLast,
                   signerVars,
                   messageVars, transmitVars, waits, mobileWallet, adapterVars>>

(***************************************************************************)
(* Web client: WalletClient.sendTransactionRequest over AudioProtocol.     *)
(***************************************************************************)
\* the operation returns { hash, success, error }; listening is left as is
Web_return(result) ==
    /\ cResult' = result
    /\ cPc' = "done"

\* AudioProtocol.startListening succeeds (the page's listen control)
Web_startListening ==
    /\ cImpl = "web"
    /\ ~isListening
    /\ isListening' = TRUE
    /\ UNCHANGED <<cImpl, cPc, cOp, cUuid, receivedCallback,
                   connectedWalletAddress, cConnect, cTxRequest, cAck,
                   cResponse, cErrorSeen, cRaw, cBroadcastOk, cResult, cSent,
                   cDelivered, cLast, signerVars,
                   messageVars, transmitVars, waits, mobileWallet, adapterVars>>

\* sendTransactionRequest(txRequest) is called: a ping is created every time
Web_sendTransactionRequest ==
    /\ cImpl = "web"
    /\ cPc \in {"idle", "done"}
    /\ cOp < MaxOps
    /\ cOp' = cOp + 1
    /\ cTxRequest' = createTxRequest(RequestedTx, uuidv4(cUuid))
    /\ cConnect' = createPing(uuidv4(cUuid + 1))
    /\ cUuid' = cUuid + 2
    /\ cPc' = "sendConnect"
    /\ cAck' = NoMsg
    /\ cResponse' = NoMsg
    /\ cErrorSeen' = FALSE
    /\ cRaw' = NoRaw
    /\ cBroadcastOk' = FALSE
    /\ cResult' = NoResult
    /\ UNCHANGED <<cImpl, isListening, receivedCallback,
                   connectedWalletAddress, cSent, cDelivered, cLast, signerVars,
                   messageVars, transmitVars, waits, mobileWallet, adapterVars>>

\* audio.sendMessage(ping) resolves: true once playback started
Web_pingSent(sent) ==
    /\ cImpl = "web"
    /\ cPc = "sendConnect"
    /\ cSent' = Append(cSent, ClientSent(cConnect, sent))
    /\ IF sent
         THEN cPc' = "waitConnect" /\ UNCHANGED cResult
         ELSE Web_return(Result(FALSE, "Failed to send ping"))
    /\ UNCHANGED <<cImpl, cOp, cUuid, isListening, receivedCallback,
                   connectedWalletAddress, cConnect, cTxRequest, cAck,
                   cResponse, cErrorSeen, cRaw, cBroadcastOk, cDelivered, cLast,
                   signerVars,
                   messageVars, transmitVars, waits, mobileWallet, adapterVars>>

\* audio.sendMessage(txRequest) resolves
Web_txRequestSent(sent) ==
    /\ cImpl = "web"
    /\ cPc = "sendTx"
    /\ cSent' = Append(cSent, ClientSent(cTxRequest, sent))
    /\ IF sent
         THEN cPc' = "waitTx" /\ UNCHANGED cResult
         ELSE Web_return(Result(FALSE, "Failed to send transaction request"))
    /\ UNCHANGED <<cImpl, cOp, cUuid, isListening, receivedCallback,
                   connectedWalletAddress, cConnect, cTxRequest, cAck,
                   cResponse, cErrorSeen, cRaw, cBroadcastOk, cDelivered, cLast,
                   signerVars,
                   messageVars, transmitVars, waits, mobileWallet, adapterVars>>

\* the timer of the pending audio.waitForMessage fires: it resolves to null
Web_waitTimeout ==
    /\ cImpl = "web"
    /\ cPc \in {"waitConnect", "waitTx"}
    /\ Web_return(Result(FALSE,
                         IF cPc = "waitConnect"
                           THEN "No pong received from offline wallet"
                           ELSE "No transaction response received"))
    /\ UNCHANGED <<cImpl, cOp, cUuid, isListening, receivedCallback,
                   connectedWalletAddress, cConnect, cTxRequest, cAck,
                   cResponse, cErrorSeen, cRaw, cBroadcastOk, cSent,
                   cDelivered, cLast, signerVars,
                   messageVars, transmitVars, waits, mobileWallet, adapterVars>>

\* the wait for tx_response resolved with response
Web_txResponseReceived(response) ==
    /\ cResponse' = response
    /\ IF ~Has(response.payload, "signed_transaction")
         THEN /\ Web_return(Result(FALSE, "Invalid transaction response"))
              /\ UNCHANGED cRaw
         ELSE /\ cRaw' = response.payload.signed_transaction
              /\ cPc' = "broadcast"
              /\ UNCHANGED cResult

\* the capture loop decodes message and emits 'message': the listener of a
\* pending waitForMessage and WalletClient.handleMessage both run
Web_receive(message) ==
    /\ cImpl = "web"
    /\ isListening
    /\ cDelivered < MaxClientDeliveries
    /\ cDelivered' = cDelivered + 1
    /\ cLast' = Delivery(message, PendingWait,
                         \/ cPc = "waitConnect" /\ message.type = "pong"
                         \/ cPc = "waitTx" /\ message.type = "tx_response",
                         handleMessage_web)
    /\ IF cPc = "waitConnect" /\ message.type = "pong"
         THEN /\ cAck' = message
              /\ cPc' = "sendTx"
              /\ UNCHANGED <<cResponse, cRaw, cResult, cErrorSeen>>
         ELSE IF cPc = "waitTx" /\ message.type = "tx_response"
           THEN /\ Web_txResponseReceived(message)
                /\ UNCHANGED <<cAck, cErrorSeen>>
           ELSE /\ cErrorSeen' =
                     (cErrorSeen
                        \/ (cPc = "waitTx" /\ AnswersRequest(message)))
                /\ UNCHANGED <<cPc, cAck, cResponse, cRaw, cResult>>
    /\ UNCHANGED <<cImpl, cOp, cUuid, isListening, receivedCallback,
                   connectedWalletAddress, cConnect, cTxRequest,
                   cBroadcastOk, cSent, signerVars,
                   messageVars, transmitVars, waits, mobileWallet, adapterVars>>

\* crypto.broadcastTransaction(signedTx) returns the hash or throws
Web_broadcastTransaction(ok) ==
    /\ cImpl = "web"
    /\ cPc = "broadcast"
    /\ cBroadcastOk' = ok
    /\ Web_return(IF ok THEN Result(TRUE, "")
                        ELSE Result(FALSE, "Failed to broadcast"))
    /\ UNCHANGED <<cImpl, cOp, cUuid, isListening, receivedCallback,
                   connectedWalletAddress, cConnect, cTxRequest, cAck,
                   cResponse, cErrorSeen, cRaw, cSent, cDelivered, cLast,
                   signerVars,
                   messageVars, transmitVars, waits, mobileWallet, adapterVars>>

(***************************************************************************)
(* Message serialisation: Message.toJSON and Message.fromJSON.             *)
(***************************************************************************)
\* no text yet
NoText == << <<"", "">> >>

\* the kinds of the protocol (MessageType)
MessageTypes ==
    {"connect", "connect_response", "ping", "pong", "tx_request",
     "tx_response", "ack", "error"}

\* a payload of each kind, as the factories build it
PayloadsOf(type) ==
    IF type \in {"connect", "ping"} THEN { <<>> }
    ELSE IF type = "connect_response"
      THEN { [address |-> "0xWallet", received_id |-> i] : i \in PeerIds }
    ELSE IF type \in {"pong", "ack"}
      THEN { [received_id |-> i] : i \in PeerIds }
    ELSE IF type = "tx_request"
      THEN { [transaction |-> tx] : tx \in Txs }
    ELSE IF type = "tx_response"
      THEN { [signedTransaction |-> signTransaction(tx)] : tx \in Txs }
    ELSE { [message |-> "Transaction rejected by user"] }
         \cup { [message |-> "Transaction rejected by user",
                 received_id |-> i] : i \in PeerIds }

\* texts the channel can deliver: JSON objects with any of the four fields
\* present or absent and any kind, and a text that is no JSON
ReceivedTexts ==
    { JSON_stringify(<< <<"version", v>>, <<"type", t>>, <<"payload", p>>,
                        <<"id", i>> >>) :
        v \in Versions \cup {Undefined("version")},
        t \in {"ping", "tx_request", "bogus", Undefined("type")},
        p \in { <<>>, Undefined("payload") },
        i \in {PeerEnvelopeId(1), Undefined("id")} }
    \cup {NotJSON}

\* createTxRequest has not been called
NoArgs == [chainId |-> 0]

InitMessage ==
    /\ txArgs = NoArgs
    /\ original = NoMsg
    /\ json = NoText
    /\ parsed = NoMsg
    /\ thrown = ""
    /\ mUuid = 0

\* new Message(version, type, payload, id)
Message_new(version, type, payload, id) ==
    /\ original = NoMsg
    /\ json = NoText
    /\ original' = Message(version, type, payload, id, uuidv4(mUuid))
    /\ mUuid' = IF id = Null THEN mUuid + 1 ELSE mUuid
    /\ UNCHANGED <<txArgs, json, parsed, thrown, signerVars, clientVars,
                   adapterVars, transmitVars, waits, mobileWallet>>

\* original.toJSON()
Message_toJSON ==
    /\ original # NoMsg
    /\ json = NoText
    /\ json' = toJSON(original)
    /\ UNCHANGED <<txArgs, original, parsed, thrown, mUuid, signerVars, clientVars,
                   adapterVars, transmitVars, waits, mobileWallet>>

\* a text is received from the channel
receiveText(text) ==
    /\ original = NoMsg
    /\ json = NoText
    /\ json' = text
    /\ UNCHANGED <<txArgs, original, parsed, thrown, mUuid, signerVars, clientVars,
                   adapterVars, transmitVars, waits, mobileWallet>>

\* Message.fromJSON(json): JSON.parse throws on a text that is no JSON
Message_fromJSON ==
    /\ json # NoText
    /\ parsed = NoMsg
    /\ thrown = ""
    /\ IF json = NotJSON
         THEN /\ thrown' = "SyntaxError"
              /\ UNCHANGED <<parsed, mUuid>>
         ELSE /\ parsed' = fromJSON(JSON_parse(json), uuidv4(mUuid))
              /\ mUuid' = IF Field(JSON_parse(json), "id") = Null
                            THEN mUuid + 1 ELSE mUuid
              /\ UNCHANGED thrown
    /\ UNCHANGED <<txArgs, original, json, signerVars, clientVars,
                   adapterVars, transmitVars, waits, mobileWallet>>

(***************************************************************************)
(* SoundProtocol: startListening, stopListening, the recorder's data       *)
(* handler and processAudioBuffer.                                         *)
(***************************************************************************)
\* SoundProtocol.sampleRate
sampleRate == 48000

\* what a caller passes to startListening: a callback, or nothing
Callbacks == {[fn |-> "cb1"], [fn |-> "cb2"], NoCallback}

\* the text of a well-formed envelope, as it is played
PlayedText == toJSON(createPing(PeerEnvelopeId(1)))

\* frames the recorder can deliver: samples and the text they carry (a
\* short frame of noise; a long frame with the samples of a played envelope
\* or of a text that is no JSON, which decode may also fail to find)
Frames ==
    { [samples |-> ShortFrame, text |-> NoText] }
    \cup { [samples |-> LongFrame, text |-> t] : t \in {PlayedText, NotJSON} }

\* audioBuffer.length
RECURSIVE BufferLength(_)
BufferLength(buffer) ==
    IF buffer = <<>> THEN 0
    ELSE buffer[1].samples + BufferLength(Tail(buffer))

\* a slice that keeps the first n samples, audioBuffer.slice(0, n)
RECURSIVE Slice_oldest(_, _)
Slice_oldest(buffer, n) ==
    IF buffer = <<>> \/ n <= 0 THEN <<>>
    ELSE IF buffer[1].samples <= n
      THEN << buffer[1] >> \o Slice_oldest(Tail(buffer), n - buffer[1].samples)
      ELSE << [samples |-> n, text |-> NoText] >>

\* audioBuffer.slice(-n): the last n samples; a frame cut in two no longer
\* carries its text
RECURSIVE Slice(_, _)
Slice(buffer, n) ==
    IF buffer = <<>> \/ n <= 0 THEN <<>>
    ELSE LET last == buffer[Len(buffer)]
             front == SubSeq(buffer, 1, Len(buffer) - 1)
         IN  IF last.samples <= n
               THEN Append(Slice(front, n - last.samples), last)
               ELSE << [samples |-> n, text |-> NoText] >>

\* the sliding window: over two seconds of samples, keep the last second
Trim(buffer) ==
    IF BufferLength(buffer) > sampleRate * 2
      THEN Slice(buffer, sampleRate)
      ELSE buffer

\* what ggwave.decode can return for the buffer: nothing, or a text whose
\* samples the buffer holds
Decodable(buffer) ==
    {NoText} \cup {buffer[k].text : k \in 1..Len(buffer)}

\* one call of the receive callback
Call(callback, message) == [callback |-> callback, message |-> message]

\* a processAudioBuffer that drops the buffer when nothing was decoded
processAudioBuffer_clearing(buffer, decoded, callbackThrows) ==
    IF ~isInitialized
      THEN [buffer |-> buffer, calls |-> <<>>, outcome |-> "not initialized"]
    ELSE IF receivedCallback = NoCallback
      THEN [buffer |-> <<>>, calls |-> <<>>, outcome |-> "no callback"]
    ELSE IF decoded # NoText /\ decoded # NotJSON
      THEN [buffer |-> IF callbackThrows THEN Trim(buffer) ELSE <<>>,
            calls |-> << Call(receivedCallback,
                              fromJSON(JSON_parse(decoded), uuidv4(0))) >>,
            outcome |-> IF callbackThrows THEN "callback failed"
                                          ELSE "delivered"]
    ELSE [buffer |-> <<>>, calls |-> <<>>,
          outcome |-> IF decoded = NoText THEN "empty" ELSE "not a message"]

\* a processAudioBuffer that trims only past three seconds
processAudioBuffer_lateTrim(buffer, decoded, callbackThrows) ==
    IF ~isInitialized
      THEN [buffer |-> buffer, calls |-> <<>>, outcome |-> "not initialized"]
    ELSE IF receivedCallback = NoCallback
      THEN [buffer |-> <<>>, calls |-> <<>>, outcome |-> "no callback"]
    ELSE IF decoded # NoText /\ decoded # NotJSON
      THEN [buffer |-> IF callbackThrows THEN Trim(buffer) ELSE <<>>,
            calls |-> << Call(receivedCallback,
                              fromJSON(JSON_parse(decoded), uuidv4(0))) >>,
            outcome |-> IF callbackThrows THEN "callback failed"
                                          ELSE "delivered"]
    ELSE [buffer |-> IF BufferLength(buffer) > sampleRate * 3
                       THEN Slice(buffer, sampleRate) ELSE buffer,
          calls |-> <<>>,
          outcome |-> IF decoded = NoText THEN "empty" ELSE "not a message"]

\* processAudioBuffer on the buffer, with what decode returns and whether
\* the callback throws: the buffer left, the callback calls made, and the
\* branch taken
processAudioBuffer(buffer, decoded, callbackThrows) ==
    IF ~isInitialized
      THEN [buffer |-> buffer, calls |-> <<>>, outcome |-> "not initialized"]
    ELSE IF receivedCallback = NoCallback
      THEN [buffer |-> <<>>, calls |-> <<>>, outcome |-> "no callback"]
    ELSE IF decoded # NoText /\ decoded # NotJSON
      THEN \* JSON.parse succeeds: the callback is called; the buffer is
           \* cleared unless the call throws into the parseError catch
           [buffer |-> IF callbackThrows THEN Trim(buffer) ELSE <<>>,
            calls |-> << Call(receivedCallback,
                              fromJSON(JSON_parse(decoded), uuidv4(0))) >>,
            outcome |-> IF callbackThrows THEN "callback failed"
                                          ELSE "delivered"]
    ELSE [buffer |-> Trim(buffer), calls |-> <<>>,
          outcome |-> IF decoded = NoText THEN "empty" ELSE "not a message"]

InitAdapter ==
    /\ isInitialized = FALSE
    /\ initializing = TRUE
    /\ starting = 0
    /\ recording = FALSE
    /\ leaked = 0
    /\ audioBuffer = <<>>
    /\ delivered = <<>>
    /\ lastCall = [op |-> "constructor"]
    /\ frames = 0
    /\ starts = 0

\* initializeAsync finishes: ggwave is ready, or it is not
initializeAsync(ok) ==
    /\ cImpl = "node"
    /\ initializing
    /\ initializing' = FALSE
    /\ isInitialized' = ok
    /\ lastCall' = [op |-> "initializeAsync"]
    /\ UNCHANGED <<starting, recording, leaked, audioBuffer, delivered,
                   frames, starts, isListening, receivedCallback, clientRest,
                   signerVars, messageVars, transmitVars, waits, mobileWallet>>

\* startRecording: a new capture is started and stored in recording
startRecording ==
    /\ recording' = TRUE
    /\ leaked' = IF recording THEN leaked + 1 ELSE leaked

\* startListening(callback) up to its first await
startListening(callback) ==
    /\ cImpl = "node"
    /\ starts < MaxStarts
    /\ starts' = starts + 1
    /\ lastCall' = [op |-> "startListening", callback |-> callback,
                    wasListening |-> isListening]
    /\ IF isListening
         THEN UNCHANGED <<isListening, receivedCallback, audioBuffer,
                          starting, recording, leaked>>
         ELSE /\ receivedCallback' = callback
              /\ isListening' = TRUE
              /\ audioBuffer' = <<>>
              /\ IF isInitialized
                   THEN startRecording /\ UNCHANGED starting
                   ELSE /\ starting' = starting + 1
                        /\ UNCHANGED <<recording, leaked>>
    /\ UNCHANGED <<isInitialized, initializing, delivered, frames,
                   clientRest, signerVars, messageVars, transmitVars, waits, mobileWallet>>

\* a startListening call leaves its wait for initialisation: it starts the
\* capture when ggwave is ready, and gives up after 20 attempts
startListening_resume ==
    /\ cImpl = "node"
    /\ starting > 0
    /\ starting' = starting - 1
    /\ lastCall' = [op |-> "startListening resumed"]
    /\ IF isInitialized
         THEN startRecording
         ELSE UNCHANGED <<recording, leaked>>
    /\ UNCHANGED <<isInitialized, initializing, audioBuffer, delivered,
                   frames, starts, isListening, receivedCallback, clientRest,
                   signerVars, messageVars, transmitVars, waits, mobileWallet>>

\* the record of one stopListening call
Stopped == [op |-> "stopListening",
            repeated |-> lastCall.op = "stopListening",
            wasListening |-> isListening]

\* a stopListening that flips isListening
stopListening_toggling ==
    /\ cImpl = "node"
    /\ isListening' = ~isListening
    /\ recording' = FALSE
    /\ lastCall' = Stopped
    /\ UNCHANGED <<isInitialized, initializing, starting, leaked,
                   audioBuffer, delivered, frames, starts, receivedCallback,
                   clientRest, signerVars, messageVars, transmitVars, waits, mobileWallet>>

\* stopListening(): isListening = false; stopRecording()
stopListening ==
    /\ cImpl = "node"
    /\ isListening' = FALSE
    /\ recording' = FALSE
    /\ lastCall' = Stopped
    /\ UNCHANGED <<isInitialized, initializing, starting, leaked,
                   audioBuffer, delivered, frames, starts, receivedCallback,
                   clientRest, signerVars, messageVars, transmitVars, waits, mobileWallet>>

\* the recorder's data handler for one frame: push, and process the buffer
\* once it holds a quarter of a second
onData(frame, decoded, callbackThrows) ==
    /\ cImpl = "node"
    /\ recording \/ leaked > 0
    /\ frames < MaxFrames
    /\ frames' = frames + 1
    /\ LET pushed == Append(audioBuffer, frame)
           result == IF BufferLength(pushed) * 4 >= sampleRate
                       THEN processAudioBuffer(pushed, decoded,
                                               callbackThrows)
                       ELSE [buffer |-> pushed, calls |-> <<>>,
                             outcome |-> "not processed"]
       IN  /\ decoded \in Decodable(pushed)
           /\ audioBuffer' = result.buffer
           /\ delivered' = delivered \o result.calls
           /\ lastCall' = [op |-> "data", pushed |-> pushed,
                           decoded |-> decoded, outcome |-> result.outcome]
    /\ UNCHANGED <<isInitialized, initializing, starting, recording, leaked,
                   starts, isListening, receivedCallback, clientRest,
                   signerVars, messageVars, transmitVars, waits, mobileWallet>>

\* AudioProtocol.stopListening (web): nothing when not listening
Web_stopListening ==
    /\ cImpl = "web"
    /\ isListening' = FALSE
    /\ lastCall' = Stopped
    /\ UNCHANGED <<isInitialized, initializing, starting, recording, leaked,
                   audioBuffer, delivered, frames, starts, receivedCallback,
                   clientRest, signerVars, messageVars, transmitVars, waits, mobileWallet>>

\* AudioProtocol.startListening (web) succeeds, from the adapter's side
Web_startCapture ==
    /\ cImpl = "web"
    /\ ~isListening
    /\ isListening' = TRUE
    /\ lastCall' = [op |-> "startListening", callback |-> NoCallback,
                    wasListening |-> FALSE]
    /\ UNCHANGED <<isInitialized, initializing, starting, recording, leaked,
                   audioBuffer, delivered, frames, starts, receivedCallback,
                   clientRest, signerVars, messageVars, transmitVars, waits, mobileWallet>>

(***************************************************************************)
(* createTxRequest: the hexadecimal encoding of the numeric fields.        *)
(***************************************************************************)
\* the digits of radix 16, as toString(16) writes them
Hex == <<"0", "1", "2", "3", "4", "5", "6", "7", "8", "9",
         "a", "b", "c", "d", "e", "f">>

\* Number.prototype.toString(16) / BigInt.prototype.toString(16) of n >= 0,
\* as its characters
RECURSIVE toHex(_)
toHex(n) ==
    IF n < 16 THEN << Hex[n + 1] >>
    ELSE Append(toHex(n \div 16), Hex[(n % 16) + 1])

\* the decimal string of n >= 0, as its characters
RECURSIVE toDecimal(_)
toDecimal(n) ==
    IF n < 10 THEN << Hex[n + 1] >>
    ELSE Append(toDecimal(n \div 10), Hex[(n % 10) + 1])

\* an argument: a number or bigint n, or the decimal string of n
Num(n) == [kind |-> "number", n |-> n]
Str(n) == [kind |-> "string", n |-> n]

\* arg.toString(16): a number or bigint is written in radix 16; a string
\* returns itself, String.prototype.toString takes no radix
toString16(arg) ==
    IF arg.kind = "string" THEN toDecimal(arg.n) ELSE toHex(arg.n)

\* the transaction object createTxRequest puts into the payload
TransactionData(chainId, to, value, data, nonce, gasPrice, gasLimit) ==
    [chainId |-> chainId,
     nonce |-> <<"0", "x">> \o toString16(nonce),
     gasPrice |-> <<"0", "x">> \o toString16(gasPrice),
     gasLimit |-> <<"0", "x">> \o toString16(gasLimit),
     to |-> to,
     value |-> <<"0", "x">> \o toString16(value),
     data |-> data]

\* MessageProtocol.createTxRequest(chainId, to, value, data, nonce,
\* gasPrice, gasLimit) is called
createTxRequest_call(chainId, to, value, data, nonce, gasPrice, gasLimit) ==
    /\ txArgs = NoArgs
    /\ original = NoMsg
    /\ json = NoText
    /\ txArgs' = [chainId |-> chainId, to |-> to, value |-> value,
                  data |-> data, nonce |-> nonce, gasPrice |-> gasPrice,
                  gasLimit |-> gasLimit]
    /\ original' = createTxRequest(
                      TransactionData(chainId, to, value, data, nonce,
                                      gasPrice, gasLimit),
                      uuidv4(mUuid))
    /\ mUuid' = mUuid + 1
    /\ UNCHANGED <<json, parsed, thrown, signerVars, clientVars,
                   adapterVars, transmitVars, waits, mobileWallet>>

(***************************************************************************)
(* SoundProtocol.waitForMessage, called while earlier waits are pending.   *)
(***************************************************************************)
\* the messageCallback closure of the k-th waitForMessage call
messageCallback(k, expectedType) ==
    [wait |-> k] @@ waitForMessage(expectedType)

\* the callbacks cb(message) reaches: cb, and through a messageCallback
\* whose type does not match, its originalCallback
RECURSIVE Reached(_, _)
Reached(cb, message) ==
    IF cb.fn # "messageCallback" \/ message.type = cb.expectedType
      THEN << cb >>
      ELSE << cb >> \o (IF cb.originalCallback = NoCallback THEN <<>>
                        ELSE Reached(cb.originalCallback, message))

\* waitForMessage(expectedType) is called: messageCallback is registered
\* over the callback registered so far and the timer is set
Wait_waitForMessage(expectedType) ==
    /\ cImpl = "node"
    /\ isListening
    /\ Len(waits) < MaxWaits
    /\ LET filter == messageCallback(Len(waits) + 1, expectedType)
       IN  /\ receivedCallback' = filter
           /\ waits' = Append(waits, [callback |-> filter,
                                      state |-> "pending"])
    /\ UNCHANGED <<mobileWallet, isListening, clientRest, isInitialized, adapterRest,
                   signerVars, messageVars, transmitVars>>

\* the timer of the k-th wait fires: originalCallback is registered again
\* and the wait resolves to null
Wait_timeout(k) ==
    /\ cImpl = "node"
    /\ k \in 1..Len(waits)
    /\ waits[k].state = "pending"
    /\ receivedCallback' = waits[k].callback.originalCallback
    /\ waits' = [waits EXCEPT ![k].state = "timeout"]
    /\ UNCHANGED <<mobileWallet, isListening, clientRest, isInitialized, adapterRest,
                   signerVars, messageVars, transmitVars>>

\* the capture loop decodes message and calls receivedCallback(message): the
\* first messageCallback reached that expects its type clears its timer,
\* registers its originalCallback and resolves its wait
Wait_receive(message) ==
    /\ cImpl = "node"
    /\ isListening
    /\ receivedCallback # NoCallback
    /\ cDelivered < MaxClientDeliveries
    /\ cDelivered' = cDelivered + 1
    /\ LET reached == Reached(receivedCallback, message)
           last == reached[Len(reached)]
       IN  IF last.fn = "messageCallback"
                /\ message.type = last.expectedType
             THEN /\ receivedCallback' = last.originalCallback
                  /\ waits' = [waits EXCEPT ![last.wait].state =
                                  IF @ = "pending" THEN "resolved" ELSE @]
             ELSE UNCHANGED <<receivedCallback, waits>>
    /\ UNCHANGED <<mobileWallet, isListening, cImpl, cPc, cOp, cUuid,
                   connectedWalletAddress, cConnect, cTxRequest, cAck,
                   cResponse, cErrorSeen, cRaw, cBroadcastOk, cResult, cSent,
                   cLast, isInitialized, adapterRest, signerVars, messageVars,
                   transmitVars>>

(***************************************************************************)
(* Mobile OfflineWallet: initialize, start, stop, isWalletRunning.         *)
(***************************************************************************)
\* one call on the wallet and what it returned
WalletCall(op, result) ==
    Append(mobileWallet.calls, [op |-> op, result |-> result])

\* isWalletRunning()
isWalletRunning == mobileWallet.isRunning

\* initialize(privateKey): an invalid key throws before crypto is set; then
\* ggwave.initialize tells whether the audio system is ready
Wallet_initialize(keyValid, audioInitialized) ==
    /\ Len(mobileWallet.calls) < MaxWalletCalls
    /\ mobileWallet' =
         [mobileWallet EXCEPT
            !.crypto = @ \/ keyValid,
            !.audio = IF keyValid THEN audioInitialized ELSE @,
            !.calls = WalletCall("initialize",
                                 IF keyValid /\ audioInitialized
                                   THEN "true" ELSE "false")]
    /\ UNCHANGED <<signerVars, clientVars, messageVars, adapterVars,
                   transmitVars, waits>>

\* start(): throws without crypto; else isRunning = true, and
\* ggwave.startListening throws when ggwave is not initialised or tells
\* whether the capture started
Wallet_start(success) ==
    /\ Len(mobileWallet.calls) < MaxWalletCalls
    /\ mobileWallet' =
         IF ~mobileWallet.crypto
           THEN [mobileWallet EXCEPT !.calls = WalletCall("start", "thrown")]
         ELSE IF mobileWallet.audio /\ success
           THEN [mobileWallet EXCEPT !.isRunning = TRUE,
                                     !.listening = TRUE,
                                     !.calls = WalletCall("start", "true")]
           ELSE [mobileWallet EXCEPT !.isRunning = TRUE,
                                     !.calls = WalletCall("start", "false")]
    /\ UNCHANGED <<signerVars, clientVars, messageVars, adapterVars,
                   transmitVars, waits>>

\* stop(): isRunning = false, then ggwave.stopListening, which does nothing
\* when ggwave is not initialised and may fail
Wallet_stop(stopped) ==
    /\ Len(mobileWallet.calls) < MaxWalletCalls
    /\ mobileWallet' =
         [mobileWallet EXCEPT
            !.isRunning = FALSE,
            !.listening = IF mobileWallet.audio /\ stopped THEN FALSE ELSE @,
            !.calls = WalletCall("stop", "void")]
    /\ UNCHANGED <<signerVars, clientVars, messageVars, adapterVars,
                   transmitVars, waits>>

(***************************************************************************)
(* Transmit: SoundProtocol.sendMessage (Node), AudioProtocol.sendMessage   *)
(* (web) and GGWaveModule.transmitMessage (mobile).                        *)
(***************************************************************************)
\* one transmit call: where the call stands ("waiting" for initialisation,
\* "playing", "returned"), what it returned ("true", "false", or "thrown"
\* for an exception), where the playback of its waveform stands ("none",
\* "playing", "ended", "failed") and whether the encoder was there
Transmit(call, result, playback, codec) ==
    [call |-> call, result |-> result, playback |-> playback, codec |-> codec]

\* the call k with its record replaced
Returned(k, record) == [calls EXCEPT ![k] = record]

\* the playbacks in progress
Playing == {k \in 1..Len(calls) : calls[k].playback = "playing"}

InitTransmit ==
    /\ device \in {"node", "web", "mobile"}
    /\ calls = <<>>
    /\ waits = <<>>
    /\ mobileWallet = [crypto |-> FALSE, audio |-> FALSE,
                       isRunning |-> FALSE, listening |-> FALSE,
                       isTransmitting |-> FALSE, calls |-> <<>>]

\* sendMessage from its encode on: encode throws, or playback starts
encodeAndPlay(encodeOk) ==
    IF encodeOk THEN Transmit("playing", "pending", "playing", "ready")
                ELSE Transmit("returned", "false", "none", "ready")

\* SoundProtocol.sendMessage(message) is called, by the client or by a
\* message handler that nothing awaits: it waits when not initialised
sendMessage(encodeOk) ==
    /\ device = "node"
    /\ Len(calls) < MaxSends
    /\ calls' = Append(calls,
                       IF isInitialized
                         THEN encodeAndPlay(encodeOk)
                         ELSE Transmit("waiting", "pending", "none",
                                       "unknown"))
    /\ UNCHANGED <<waits, mobileWallet, device, adapterVars, signerVars, clientVars, messageVars>>

\* sendMessage leaves its wait (initialised, or ten attempts made): without
\* a ggwave instance it logs 'Would send' and returns true
sendMessage_resume(k, encodeOk) ==
    /\ device = "node"
    /\ k \in 1..Len(calls)
    /\ calls[k].call = "waiting"
    /\ calls' = Returned(k, IF isInitialized
                              THEN encodeAndPlay(encodeOk)
                              ELSE Transmit("returned", "true", "none",
                                            "unavailable"))
    /\ UNCHANGED <<waits, mobileWallet, device, adapterVars, signerVars, clientVars, messageVars>>

\* playAudio: the speaker closes (resolve) or reports an error (reject)
playAudio(k, closed) ==
    /\ device = "node"
    /\ k \in 1..Len(calls)
    /\ calls[k].call = "playing"
    /\ calls' = Returned(k, IF closed
                              THEN Transmit("returned", "true", "ended",
                                            "ready")
                              ELSE Transmit("returned", "false", "failed",
                                            "ready"))
    /\ UNCHANGED <<waits, mobileWallet, device, adapterVars, signerVars, clientVars, messageVars>>

\* SoundProtocol.initializeAsync on the transmitting device
Transmit_initializeAsync(ok) ==
    /\ device = "node"
    /\ initializeAsync(ok)
    /\ UNCHANGED transmitVars

\* AudioProtocol.sendMessage (web): initialize() inside the call; true is
\* returned once source.start(0) was called
Web_sendMessage(ok, encodeOk) ==
    /\ device = "web"
    /\ Len(calls) < MaxSends
    /\ isInitialized => ok
    /\ isInitialized' = ok
    /\ initializing' = FALSE
    /\ calls' = Append(calls,
                       IF ~ok
                         THEN Transmit("returned", "false", "none",
                                       "unavailable")
                       ELSE IF ~encodeOk
                         THEN Transmit("returned", "false", "none", "ready")
                         ELSE Transmit("returned", "true", "playing",
                                       "ready"))
    /\ UNCHANGED <<waits, mobileWallet, device, starting, recording, leaked, audioBuffer,
                   delivered, lastCall, frames, starts, signerVars,
                   clientVars, messageVars>>

\* source.onended (web): the playback of call k has finished
Web_onended(k) ==
    /\ device = "web"
    /\ k \in Playing
    /\ calls' = Returned(k, [calls[k] EXCEPT !.playback = "ended"])
    /\ UNCHANGED <<waits, mobileWallet, device, adapterVars, signerVars, clientVars, messageVars>>

\* GGWaveModule.initialize (mobile)
Mobile_initialize(ok) ==
    /\ device = "mobile"
    /\ ~isInitialized
    /\ isInitialized' = ok
    /\ initializing' = FALSE
    /\ UNCHANGED <<starting, recording, leaked, audioBuffer, delivered,
                   lastCall, frames, starts, transmitVars, waits, mobileWallet, signerVars,
                   clientVars, messageVars>>

\* GGWaveModule.transmitMessage (mobile): throws when not initialised; the
\* native module rejects the call when _isTransmitting is set, and else
\* queues a block on the global queue and returns to its caller
Mobile_transmitMessage ==
    /\ device = "mobile"
    /\ Len(calls) < MaxSends
    /\ calls' = Append(calls,
                       IF ~isInitialized
                         THEN Transmit("returned", "thrown", "none",
                                       "unavailable")
                       ELSE IF mobileWallet.isTransmitting
                         THEN Transmit("returned", "false", "none", "ready")
                         ELSE Transmit("queued", "pending", "none", "ready"))
    /\ UNCHANGED <<waits, mobileWallet, device, adapterVars, signerVars,
                   clientVars, messageVars>>

\* the queued block of call k starts on the global queue: it sets
\* _isTransmitting and plays the waveform
Mobile_transmissionStarted(k) ==
    /\ device = "mobile"
    /\ k \in 1..Len(calls)
    /\ calls[k].call = "queued"
    /\ calls' = Returned(k, Transmit("playing", "pending", "playing",
                                     "ready"))
    /\ mobileWallet' = [mobileWallet EXCEPT !.isTransmitting = TRUE]
    /\ UNCHANGED <<waits, device, adapterVars, signerVars, clientVars,
                   messageVars>>

\* the native transmission of call k completes, with or without success:
\* _isTransmitting is cleared on the main queue and the promise resolves
Mobile_transmissionCompleted(k, success) ==
    /\ device = "mobile"
    /\ k \in 1..Len(calls)
    /\ calls[k].call = "playing"
    /\ calls' = Returned(k, IF success
                              THEN Transmit("returned", "true", "ended",
                                            "ready")
                              ELSE Transmit("returned", "false", "failed",
                                            "ready"))
    /\ mobileWallet' = [mobileWallet EXCEPT !.isTransmitting = FALSE]
    /\ UNCHANGED <<waits, device, adapterVars, signerVars, clientVars,
                   messageVars>>

Init == InitSigner /\ InitClient /\ InitMessage /\ InitAdapter /\ InitTransmit

\* the adapter alone: either adapter, next to idle devices
InitAdapterAlone == Init /\ sImpl = "node" /\ device = "node"

\* transmit calls alone, on each kind of device
InitTransmitAlone == Init /\ sImpl = "node" /\ cImpl = "node"

NextTransmit ==
    \/ \E ok \in BOOLEAN : Transmit_initializeAsync(ok)
    \/ \E encodeOk \in BOOLEAN : sendMessage(encodeOk)
    \/ \E k \in 1..MaxSends, encodeOk \in BOOLEAN :
          sendMessage_resume(k, encodeOk)
    \/ \E k \in 1..MaxSends, closed \in BOOLEAN : playAudio(k, closed)
    \/ \E ok, encodeOk \in BOOLEAN : Web_sendMessage(ok, encodeOk)
    \/ \E k \in 1..MaxSends : Web_onended(k)
    \/ \E ok \in BOOLEAN : Mobile_initialize(ok)
    \/ Mobile_transmitMessage
    \/ \E k \in 1..MaxSends : Mobile_transmissionStarted(k)
    \/ \E k \in 1..MaxSends, success \in BOOLEAN :
          Mobile_transmissionCompleted(k, success)

SpecTransmit == InitTransmitAlone /\ [][NextTransmit]_vars

NextAdapter ==
    \/ \E ok \in BOOLEAN : initializeAsync(ok)
    \/ \E callback \in Callbacks : startListening(callback)
    \/ startListening_resume
    \/ stopListening
    \/ \E frame \in Frames :
          \E decoded \in Decodable(Append(audioBuffer, frame)) :
              \E callbackThrows \in
                    IF decoded \in {NoText, NotJSON} THEN {FALSE} ELSE BOOLEAN :
                  onData(frame, decoded, callbackThrows)
    \/ Web_stopListening
    \/ Web_startCapture

SpecAdapter == InitAdapterAlone /\ [][NextAdapter]_vars

\* the signer alone: either signer, next to a client that stays idle
InitSignerAlone == Init /\ cImpl = "node" /\ device = "node"

\* the message serialisation alone, next to an idle signer and client
InitMessageAlone ==
    Init /\ sImpl = "node" /\ cImpl = "node" /\ device = "node"

\* the client alone: either client, next to a signer that stays idle
InitClientAlone == Init /\ sImpl = "node" /\ device = "node"

NextClient ==
    \/ sendTransactionRequest
    \/ connectToWallet
    \/ \E played \in BOOLEAN : connectPlayed(played)
    \/ \E played \in BOOLEAN : txRequestPlayed(played)
    \/ waitTimeout
    \/ \E message \in ClientInputs : receive(message)
    \/ \E ok \in BOOLEAN : broadcastTransaction(ok)
    \/ Web_startListening
    \/ Web_sendTransactionRequest
    \/ \E sent \in BOOLEAN : Web_pingSent(sent)
    \/ \E sent \in BOOLEAN : Web_txRequestSent(sent)
    \/ Web_waitTimeout
    \/ \E message \in ClientInputs : Web_receive(message)
    \/ \E ok \in BOOLEAN : Web_broadcastTransaction(ok)

\* amounts of wei, gas and nonces the callers pass
Amounts == {0, 1, 255, 1000, 21000}

\* createTxRequest alone, over numbers, bigints and strings
NextEncode ==
    \/ \E chainId \in {1, 137}, data \in {"0x", "0xa9059cbb"},
          value \in {Num(n) : n \in Amounts} \cup {Str(n) : n \in Amounts},
          nonce \in {Num(0), Num(17)},
          gasPrice \in {Num(1000), Str(1000)},
          gasLimit \in {Num(21000), Str(21000)} :
            createTxRequest_call(chainId, "0x742d", value, data, nonce,
                                 gasPrice, gasLimit)
    \/ Message_toJSON
    \/ Message_fromJSON

SpecEncode == InitMessageAlone /\ [][NextEncode]_vars

\* a SoundProtocol that listens, and the waits on it
NextWait ==
    \/ \E callback \in Callbacks : startListening(callback)
    \/ \E expectedType \in {"connect_response", "tx_response"} :
          Wait_waitForMessage(expectedType)
    \/ \E k \in 1..MaxWaits : Wait_timeout(k)
    \/ \E type \in {"tx_response", "error"} :
          Wait_receive([NoMsg EXCEPT !.type = type])

SpecWait == InitMessageAlone /\ [][NextWait]_vars

\* what a device's capture decodes of its own playback: the envelopes it
\* played, as their text parses
Echoes(sent) ==
    { JSON_parse(toJSON(sent[k].msg)) :
        k \in {j \in 1..Len(sent) : sent[j].played} }

\* a device without a signer: nothing is ever decoded by one
NoSigner ==
    /\ sImpl = "none"
    /\ sUuid = 0
    /\ rlQuestion = NoMsg
    /\ sDisplayed = NoMsg
    /\ currentTransaction = NoMsg
    /\ sOut = <<>>
    /\ sReceived = 0
    /\ sLast = NoMsg
    /\ sApproved = {}
    /\ sBusyArrivals = {}

\* a device without a client: no operation is ever started
NoClient ==
    /\ cImpl = "none"
    /\ cPc = "idle"
    /\ cOp = 0
    /\ cUuid = 0
    /\ isListening = FALSE
    /\ receivedCallback = NoCallback
    /\ connectedWalletAddress = NoAddress
    /\ cConnect = NoMsg
    /\ cTxRequest = NoMsg
    /\ cAck = NoMsg
    /\ cResponse = NoMsg
    /\ cErrorSeen = FALSE
    /\ cRaw = NoRaw
    /\ cBroadcastOk = FALSE
    /\ cResult = NoResult
    /\ cSent = <<>>
    /\ cDelivered = 0
    /\ cLast = NoDelivery

\* what the signer decodes: requests of one peer, and its own envelopes
EchoSignerInputs ==
    {data \in SignerInputs : data.id = <<"peer", 1>>} \cup Echoes(sOut)

\* what the client decodes: replies in its version, and its own envelopes
EchoClientInputs ==
    {message \in ClientInputs : message.version = PROTOCOL_VERSION}
        \cup Echoes(cSent)

\* one device, a signer or a client, whose capture keeps running while it
\* plays: it decodes its peer's envelopes and its own
NextEcho ==
    \/ \E data \in EchoSignerInputs, played \in BOOLEAN :
          handleMessage(data, played)
    \/ \E answer \in Answers, signOk \in BOOLEAN, played \in BOOLEAN :
          answerConfirmation(answer, signOk, played)
    \/ \E data \in EchoSignerInputs, played \in BOOLEAN :
          handleAudioMessage(data, played)
    \/ \E signOk \in BOOLEAN, played \in BOOLEAN, errPlayed \in BOOLEAN :
          approveTransaction(signOk, played, errPlayed)
    \/ \E played \in BOOLEAN : rejectTransaction(played)
    \/ sendTransactionRequest
    \/ connectToWallet
    \/ \E played \in BOOLEAN : connectPlayed(played)
    \/ \E played \in BOOLEAN : txRequestPlayed(played)
    \/ waitTimeout
    \/ \E message \in EchoClientInputs : receive(message)
    \/ \E ok \in BOOLEAN : broadcastTransaction(ok)
    \/ Web_startListening
    \/ Web_sendTransactionRequest
    \/ \E sent \in BOOLEAN : Web_pingSent(sent)
    \/ \E sent \in BOOLEAN : Web_txRequestSent(sent)
    \/ Web_waitTimeout
    \/ \E message \in EchoClientInputs : Web_receive(message)
    \/ \E ok \in BOOLEAN : Web_broadcastTransaction(ok)

\* the device is a signer (Node or mobile) or a client (Node or web)
InitEcho ==
    /\ InitMessage /\ InitAdapter /\ InitTransmit /\ device = "node"
    /\ \/ InitSigner /\ NoClient
       \/ InitClient /\ NoSigner

SpecEcho == InitEcho /\ [][NextEcho]_vars

\* the mobile wallet's lifecycle
NextWallet ==
    \/ \E keyValid, audioInitialized \in BOOLEAN :
          Wallet_initialize(keyValid, audioInitialized)
    \/ \E success \in BOOLEAN : Wallet_start(success)
    \/ \E stopped \in BOOLEAN : Wallet_stop(stopped)

SpecWallet == InitMessageAlone /\ [][NextWallet]_vars

NextMessage ==
    \/ \E version \in Versions, type \in MessageTypes, id \in PeerIds \cup {Null} :
          \E payload \in PayloadsOf(type) :
              Message_new(version, type, payload, id)
    \/ Message_toJSON
    \/ \E text \in ReceivedTexts : receiveText(text)
    \/ Message_fromJSON

SpecMessage == InitMessageAlone /\ [][NextMessage]_vars

SpecClient == InitClientAlone /\ [][NextClient]_vars

NextSigner ==
    \/ \E data \in SignerInputs, played \in BOOLEAN :
          handleMessage(data, played)
    \/ \E answer \in Answers, signOk \in BOOLEAN, played \in BOOLEAN :
          answerConfirmation(answer, signOk, played)
    \/ \E data \in SignerInputs, played \in BOOLEAN :
          handleAudioMessage(data, played)
    \/ \E signOk \in BOOLEAN, played \in BOOLEAN, errPlayed \in BOOLEAN :
          approveTransaction(signOk, played, errPlayed)
    \/ \E played \in BOOLEAN : rejectTransaction(played)

SpecSigner == InitSignerAlone /\ [][NextSigner]_vars

\* timers fire, playback completes and the broadcaster returns
SpecClientFair ==
    /\ SpecClient
    /\ WF_vars(\E played \in BOOLEAN : connectPlayed(played))
    /\ WF_vars(\E played \in BOOLEAN : txRequestPlayed(played))
    /\ WF_vars(waitTimeout)
    /\ WF_vars(\E ok \in BOOLEAN : broadcastTransaction(ok))
    /\ WF_vars(\E sent \in BOOLEAN : Web_pingSent(sent))
    /\ WF_vars(\E sent \in BOOLEAN : Web_txRequestSent(sent))
    /\ WF_vars(Web_waitTimeout)
    /\ WF_vars(\E ok \in BOOLEAN : Web_broadcastTransaction(ok))

(***************************************************************************)
(* Properties of the signer.                                               *)
(***************************************************************************)
\* the transmissions of the signer
SignerSent == {sOut[k] : k \in 1..Len(sOut)}

\* C1: every tx_response the signer has sent answers a request for which the
\* user's approval was granted, and carries the signature of that request.
C1_ResponseOnlyAfterApproval ==
    \A e \in SignerSent :
        e.msg.type = "tx_response" =>
            /\ e.about \in sApproved
            /\ e.about.type = "tx_request"
            /\ e.msg.payload.signedTransaction =
                 signTransaction(e.about.payload.transaction)

\* a tx_response was played after the user approved, and a request that was
\* not approved was answered too
C1_Witness ==
    /\ \E e \in SignerSent : e.msg.type = "tx_response" /\ e.played
    /\ \E e \in SignerSent :
          e.about.type = "tx_request" /\ e.about \notin sApproved

\* C2: every tx_request decoded while another request awaited approval has
\* been answered with an error envelope Busy that references its id.
C2_SecondRequestAnsweredBusy ==
    \A r2 \in sBusyArrivals :
        \E e \in SignerSent :
            /\ e.about = r2
            /\ e.msg.type = "error"
            /\ e.msg.payload.message = "Busy"
            /\ e.msg.payload.received_id = r2.id

\* C3: while a request awaits approval, the request the decision applies to
\* and the request presented to the user stay that request until it is
\* answered.
C3_PendingRequestKept ==
    [][AwaitingApproval =>
          /\ Pending' \in {Pending, NoMsg}
          /\ Pending' = Pending => Presented' = Presented]_vars

\* C9: the signer answers an envelope of an unsupported version with an
\* error envelope that carries the envelope's id, and does nothing else
\* for it.
C9_UnsupportedVersionAnswered ==
    (sLast # NoMsg /\ ~validateVersion(sLast)) =>
        /\ \E e \in SignerSent :
              /\ e.about = sLast
              /\ e.msg.type = "error"
              /\ e.msg.payload.received_id = sLast.id
        /\ \A e \in SignerSent : e.about = sLast => e.msg.type = "error"
        /\ sLast \notin {Pending, Presented}

(***************************************************************************)
(* Properties of the client.                                               *)
(***************************************************************************)
\* the transmissions of the client in operation op that carry one of types
SentInOp(op, types) ==
    {k \in 1..Len(cSent) : cSent[k].op = op /\ cSent[k].msg.type \in types}

\* the results that report that no peer was detected
NoPeerDetected ==
    {Result(FALSE, "No connect response received"),
     Result(FALSE, "No pong received from offline wallet")}

\* the result that reports a response timeout
ResponseTimeout == Result(FALSE, "No transaction response received")

\* C4: an operation that ended because no handshake acknowledgement arrived
\* has transmitted exactly soundRetries + 1 handshake envelopes.
C4_RetryBound ==
    (cPc = "done" /\ cResult \in NoPeerDetected) =>
        Cardinality(SentInOp(cOp, {"connect", "ping"})) = soundRetries + 1

\* C5: no operation has transmitted its tx_request more than once, and an
\* operation whose wait for the response timed out has ended in failure.
C5_RequestSentAtMostOnce ==
    /\ \A op \in 1..MaxOps : Cardinality(SentInOp(op, {"tx_request"})) <= 1
    /\ \A k \in 1..Len(cSent) :
          cSent[k].msg.type = "tx_request" =>
              \A j \in 1..Len(cSent) : cSent[j].msg = cSent[k].msg => j = k
    /\ cResult = ResponseTimeout => cPc = "done"

\* an operation ended on the response timeout after sending its tx_request
C5_Witness ==
    /\ cPc = "done"
    /\ cResult = ResponseTimeout
    /\ Cardinality(SentInOp(cOp, {"tx_request"})) = 1

\* the tx_response a signer builds for the requested transaction
SignerResponse(message) ==
    /\ message.type = "tx_response"
    /\ validateVersion(message)
    /\ message.payload = [signedTransaction |-> signTransaction(RequestedTx)]

\* C6: once the handshake was acknowledged and the signer's tx_response was
\* decoded during the wait, the raw transaction handed to the broadcaster is
\* the signer's, and the operation ends in success when the broadcaster
\* accepts it.
C6_SignedResponseCompletes ==
    (cAck # NoMsg /\ validateVersion(cAck) /\ SignerResponse(cResponse)) =>
        /\ cRaw = signTransaction(RequestedTx).raw
        /\ (cPc = "done" /\ cBroadcastOk) => cResult.success

\* C7: once the error envelope that answers the tx_request was decoded
\* during the wait, the operation has ended, in a failure other than the
\* response timeout.
C7_RejectionEndsOperation ==
    cErrorSeen =>
        /\ cPc = "done"
        /\ ~cResult.success
        /\ cResult # ResponseTimeout

\* C8: an operation that has started eventually returns, and one that ends
\* with its handshake envelope played and never acknowledged returns the
\* no-peer-detected failure.
C8_OperationReturns ==
    /\ (cPc \notin {"idle", "done"}) ~> (cPc = "done")
    /\ [](( /\ cPc = "done"
            /\ cAck = NoMsg
            /\ \E k \in SentInOp(cOp, {"connect", "ping"}) : cSent[k].played)
          => cResult \in NoPeerDetected)

\* an operation returned the no-peer-detected failure
C8_Witness ==
    /\ cPc = "done"
    /\ cResult \in NoPeerDetected
    /\ cAck = NoMsg

\* C10: the envelopes that moved the session on (the handshake
\* acknowledgement, the tx_response) carry a supported version.
C10_VersionGate ==
    /\ cAck # NoMsg => validateVersion(cAck)
    /\ cResponse # NoMsg => validateVersion(cResponse)

\* C11: the envelope taken as the handshake acknowledgement references the
\* handshake envelope of the operation in flight, and the envelope taken as
\* the tx_response was sent in answer to the request of the operation in
\* flight.
C11_ReplyCorrelated ==
    /\ cAck # NoMsg =>
          /\ cAck.payload.received_id = cConnect.id
          /\ AnsweredOp(cAck) = cOp
    /\ cResponse # NoMsg => AnsweredOp(cResponse) = cOp

\* the played terminal replies (tx_response or error) to the accepted
\* tx_request with id i
TerminalReplies(i) ==
    {k \in 1..Len(sOut) :
        /\ sOut[k].played
        /\ sOut[k].msg.type \in {"tx_response", "error"}
        /\ sOut[k].about.type = "tx_request"
        /\ validateVersion(sOut[k].about)
        /\ sOut[k].about.id = i}

\* C12: for every tx_request id the signer has transmitted at most one
\* terminal reply.
C12_OneTerminalReply ==
    \A i \in PeerIds : Cardinality(TerminalReplies(i)) <= 1

\* C13: every tx_request transmitted follows a handshake envelope transmitted
\* in the same operation, and the operation is past the handshake only
\* with its acknowledgement received.
C13_HandshakeBeforeRequest ==
    /\ \A k \in 1..Len(cSent) :
          cSent[k].msg.type = "tx_request" =>
              \E j \in 1..(k - 1) :
                  /\ cSent[j].op = cSent[k].op
                  /\ cSent[j].msg.type \in {"connect", "ping"}
                  /\ cSent[j].played
    /\ cPc \in {"sendTx", "waitTx", "broadcast"} => cAck # NoMsg

(***************************************************************************)
(* Properties of the message serialisation.                                *)
(***************************************************************************)
\* C14: the message parsed from the text of a message has the id, type,
\* version and payload of that message.
C14_RoundTrip ==
    (original # NoMsg /\ parsed # NoMsg) =>
        /\ parsed.id = original.id
        /\ parsed.type = original.type
        /\ parsed.version = original.version
        /\ parsed.payload = original.payload

\* a tx_response built with a drawn id was serialised and parsed back
C14_Witness ==
    /\ original # NoMsg
    /\ original.type = "tx_response"
    /\ original.id = uuidv4(0)
    /\ json = toJSON(original)
    /\ parsed # NoMsg

\* the text lacks a required field, or its kind is none of the protocol's
Malformed(text) ==
    \/ text = NotJSON
    \/ \E field \in {"version", "type", "payload", "id"} :
          ~Has(JSON_parse(text), field)
    \/ JSON_parse(text).type \notin MessageTypes

\* C15: parsing a text that lacks a required field or has an unknown kind
\* fails and yields no message.
C15_MalformedRejected ==
    (json # NoText /\ Malformed(json)) => parsed = NoMsg

(***************************************************************************)
(* Properties of the SoundProtocol adapter.                                *)
(***************************************************************************)
\* the data handler ran last and took one of the branches
Processed(outcomes) ==
    lastCall.op = "data" /\ lastCall.outcome \in outcomes

\* C16: the accumulation buffer never holds more than two seconds of
\* samples, whatever frames are captured and whatever they decode to.
C16_BufferBound == BufferLength(audioBuffer) <= 2 * sampleRate

\* frames that did not decode took the buffer over two seconds and it was
\* cut back to one second
C16_Witness ==
    /\ Processed({"empty", "not a message"})
    /\ BufferLength(lastCall.pushed) > 2 * sampleRate
    /\ BufferLength(audioBuffer) = sampleRate

\* C17: when the decode yielded a well-formed envelope and a callback is
\* registered, the callback was called last with that envelope and the
\* buffer is empty, also when the callback failed.
C17_DeliveredOnceAndCleared ==
    Processed({"delivered", "callback failed"}) =>
        /\ audioBuffer = <<>>
        /\ delivered # <<>>
        /\ delivered[Len(delivered)] =
             Call(receivedCallback,
                  fromJSON(JSON_parse(lastCall.decoded), uuidv4(0)))

\* C18: a data handler whose decode attempt failed or returned nothing
\* calls no callback and leaves the buffer as pushed, unless the buffer is
\* over two seconds, when its last second is kept.
C18_FailedDecodeKeepsBuffer ==
    [][(frames' = frames + 1 /\ lastCall'.outcome \in {"empty", "not a message"})
          => /\ delivered' = delivered
             /\ BufferLength(lastCall'.pushed) <= 2 * sampleRate
                   => audioBuffer' = lastCall'.pushed
             /\ BufferLength(lastCall'.pushed) > 2 * sampleRate
                   => audioBuffer' = Slice(lastCall'.pushed, sampleRate)]_vars

\* a text that is no message was decoded from a buffer of several frames,
\* which was kept
C18_Witness ==
    /\ Processed({"not a message"})
    /\ Len(lastCall.pushed) >= 2
    /\ audioBuffer = lastCall.pushed

\* the captures that are running
Captures == (IF recording THEN 1 ELSE 0) + leaked

\* C19: after startListening(cb2) was called while listening, cb2 is the
\* registered callback and one capture is running.
C19_CallbackReplaced ==
    (cImpl = "node" /\ lastCall.op = "startListening"
       /\ lastCall.wasListening /\ recording) =>
        /\ receivedCallback = lastCall.callback
        /\ Captures = 1

\* the adapter's state, without the record of calls
AdapterState ==
    <<isListening, receivedCallback, isInitialized, starting, recording,
      leaked, audioBuffer, delivered>>

\* C20: a stopListening call that follows a stopListening call, or is made
\* when the adapter neither listens nor captures, changes nothing.
C20_StopIdempotent ==
    [][(/\ lastCall'.op = "stopListening"
        /\ lastCall' # lastCall
        /\ \/ lastCall'.repeated
           \/ ~isListening /\ ~recording)
          => UNCHANGED AdapterState]_vars

\* stopListening was called twice in a row after the adapter had listened
C20_Witness ==
    /\ lastCall.op = "stopListening"
    /\ lastCall.repeated
    /\ starts > 0
    /\ ~isListening

\* C21: after a stopListening call of the Node adapter no capture runs and
\* the accumulation buffer is empty.
C21_StopHaltsAndClears ==
    (cImpl = "node" /\ lastCall.op = "stopListening") =>
        /\ Captures = 0
        /\ audioBuffer = <<>>

\* the handler the client registered for every envelope
GeneralHandler == IF cImpl = "node" THEN handleResponse ELSE handleMessage_web

\* C22: an envelope decoded during a wait for another type did not resolve
\* the wait and was given to the general handler registered before it.
C22_NonMatchingForwarded ==
    (cLast.pending # "none" /\ cLast.message.type # cLast.pending) =>
        /\ ~cLast.resolved
        /\ cLast.forwardedTo = GeneralHandler

\* an error arrived during the wait for tx_response, which is still pending
C22_Witness ==
    /\ cPc = "waitTx"
    /\ cLast.pending = "tx_response"
    /\ cLast.message.type = "error"
    /\ cLast.forwardedTo = GeneralHandler
    /\ cResponse = NoMsg

C24_TransmitBlocksUntilPlayed ==
    /\ \A k \in 1..Len(calls) :
          (calls[k].result = "true" /\ calls[k].playback # "none")
             => calls[k].playback = "ended"
    /\ Cardinality(Playing) <= 1

\* C25: a transmit call made without an encoder does not return success.
C25_CodecUnavailableFails ==
    \A k \in 1..Len(calls) :
        calls[k].codec = "unavailable" => calls[k].result # "true"

\* C26: no transmit call ends with an exception.
C26_NoExceptionEscapes ==
    \A k \in 1..Len(calls) : calls[k].result # "thrown"

\* C27: an envelope of unknown kind that the signer received was answered
\* with an error envelope that references its id.
C27_InvalidAnswered ==
    (sReceived > 0 /\ sLast.type \notin MessageTypes) =>
        \E k \in 1..Len(sOut) :
            /\ sOut[k].msg.type = "error"
            /\ sOut[k].msg.payload.received_id = sLast.id

\* the handshake envelope the signer answers, and its acknowledgement
Handshake == IF sImpl = "node" THEN "connect" ELSE "ping"

Acknowledgement == IF sImpl = "node" THEN "connect_response" ELSE "pong"

C29_NoDeliveryAfterStop ==
    Processed({"delivered", "callback failed"}) => isListening

\* the transmissions that reply to a received envelope by its id
Replies ==
    {k \in 1..Len(sOut) :
        /\ sOut[k].msg.type \in {"connect_response", "pong", "error"}
        /\ Has(sOut[k].msg.payload, "received_id")}

\* C30: a reply's payload.received_id is the id of the envelope it answers,
\* and the reply's own id is another one.
C30_ReplyReferencesRequest ==
    \A k \in Replies :
        /\ sOut[k].msg.payload.received_id = sOut[k].about.id
        /\ sOut[k].msg.id # sOut[k].msg.payload.received_id

\* an acknowledgement and an error were both sent in reply
C30_Witness ==
    \E j, k \in Replies :
        /\ sOut[j].msg.type = Acknowledgement
        /\ sOut[k].msg.type = "error"

\* C31: validateVersion is true exactly of the messages whose version is
\* '1.0', constructed or parsed, of every kind; a message a factory made
\* validates, and the same message with another version does not.
C31_VersionValidated ==
    /\ \A m \in {original, parsed} \ {NoMsg} :
          validateVersion(m) <=> m.version = "1.0"
    /\ validateVersion(createPing(uuidv4(mUuid)))
    /\ ~validateVersion([createPing(uuidv4(mUuid)) EXCEPT !.version = "2.0"])

\* a message of version 2.0 was constructed, serialised and parsed, and
\* neither validates
C31_Witness ==
    /\ original # NoMsg
    /\ original.version = "2.0"
    /\ parsed # NoMsg
    /\ ~validateVersion(original)
    /\ ~validateVersion(parsed)

\* the number a '0x'-prefixed string of lowercase hexadecimal digits means
\* (-1 when it is no such string)
RECURSIVE HexValue(_)
HexValue(chars) ==
    IF chars = <<>> THEN 0
    ELSE LET last == chars[Len(chars)]
             rest == HexValue(SubSeq(chars, 1, Len(chars) - 1))
             digit == {d \in 0..15 : Hex[d + 1] = last}
         IN  IF rest < 0 \/ digit = {} THEN -1
             ELSE 16 * rest + (CHOOSE d \in digit : TRUE)

Encodes(field, arg) ==
    /\ Len(field) >= 3
    /\ SubSeq(field, 1, 2) = <<"0", "x">>
    /\ HexValue(SubSeq(field, 3, Len(field))) = arg.n

\* C32: the transaction of a created tx_request holds nonce, gasPrice,
\* gasLimit and value as '0x' and the lowercase hexadecimal digits of the
\* argument's number (1 as 0x1, 21000 as 0x5208), and chainId, to and data
\* as they were passed.
C32_HexEncoding ==
    txArgs # NoArgs =>
        LET transaction == original.payload.transaction
        IN  /\ Encodes(transaction.nonce, txArgs.nonce)
            /\ Encodes(transaction.gasPrice, txArgs.gasPrice)
            /\ Encodes(transaction.gasLimit, txArgs.gasLimit)
            /\ Encodes(transaction.value, txArgs.value)
            /\ txArgs.value.n = 1 => transaction.value = <<"0", "x", "1">>
            /\ txArgs.gasLimit.n = 21000 =>
                   transaction.gasLimit = <<"0", "x", "5", "2", "0", "8">>
            /\ transaction.chainId = txArgs.chainId
            /\ transaction.to = txArgs.to
            /\ transaction.data = txArgs.data

\* kept holds the most recent samples of buffer, in order: its frames are
\* the last frames of buffer, the first of them possibly cut at its front
MostRecentOf(kept, buffer) ==
    LET n == Len(kept)
        skipped == Len(buffer) - n
    IN  /\ n >= 1 /\ skipped >= 0
        /\ \A k \in 2..n : kept[k] = buffer[skipped + k]
        /\ \/ kept[1] = buffer[skipped + 1]
           \/ /\ kept[1].samples < buffer[skipped + 1].samples
              /\ kept[1].text = NoText

C34_CaptureOnlyWhileListening ==
    cImpl = "node" =>
        /\ Captures >= 1 => isListening
        /\ Captures <= 1

\* the callbacks registered through cb: cb and the originalCallback chain
RECURSIVE Chain(_)
Chain(cb) ==
    IF cb.fn # "messageCallback" THEN {cb}
    ELSE {cb} \cup Chain(cb.originalCallback)

PendingWaits == {k \in 1..Len(waits) : waits[k].state = "pending"}

\* C35: on a listening SoundProtocol, whenever no waitForMessage is pending
\* the registered callback is the handler given to startListening; the
\* filter of a wait that resolved or timed out is not registered, and the
\* filter of every pending wait still is, also when waits overlap.
C35_CallbackRestored ==
    (/\ cImpl = "node" /\ isListening
     /\ lastCall.op = "startListening" /\ ~lastCall.wasListening) =>
        /\ PendingWaits = {} => receivedCallback = lastCall.callback
        /\ \A k \in 1..Len(waits) :
              IF k \in PendingWaits
                THEN waits[k].callback \in Chain(receivedCallback)
                ELSE waits[k].callback \notin Chain(receivedCallback)

\* C36: when connectToWallet or sendTransactionRequest of the Node client
\* has returned, on whichever path, the client is not listening.
C36_StoppedOnReturn ==
    (cImpl = "node" /\ cPc = "done") => ~isListening

\* connectToWallet, the client's second operation, returned true
C36_Witness ==
    /\ cImpl = "node" /\ cPc = "done" /\ cOp = 2
    /\ cTxRequest = NoMsg
    /\ cResult = Result(TRUE, "Connected to wallet")
    /\ ~isListening

\* C37: isWalletRunning() of the mobile signer is true only while it
\* listens: it is false after start() returned false and after stop().
C37_RunningOnlyWhileListening ==
    /\ isWalletRunning => mobileWallet.listening
    /\ mobileWallet.calls # <<>> =>
          LET last == mobileWallet.calls[Len(mobileWallet.calls)]
          IN  (last.op = "stop" \/ (last.op = "start" /\ last.result = "false"))
                 => ~isWalletRunning

\* message is an envelope the device itself transmitted
OwnEnvelope(message, sent) ==
    \E k \in 1..Len(sent) :
        sent[k].msg.id = message.id /\ sent[k].msg.type = message.type

\* C38: a device that decodes an envelope it transmitted itself takes no
\* protocol action: the signer transmits nothing and opens no approval on
\* its own connect_response, pong, tx_response or error, and on the client
\* its own connect, ping or tx_request resolves no wait and moves the
\* operation nowhere.
C38_OwnEnvelopeIgnored ==
    [][/\ (sReceived' = sReceived + 1 /\ OwnEnvelope(sLast', sOut))
            => (sOut' = sOut /\ Pending' = Pending)
       /\ (cDelivered' = cDelivered + 1 /\ OwnEnvelope(cLast'.message, cSent))
            => /\ ~cLast'.resolved
               /\ cPc' = cPc /\ cSent' = cSent
               /\ receivedCallback' = receivedCallback]_vars

\* the signer answered one envelope, then decoded its own answer (a
\* connect_response, a pong or an error) and transmitted nothing more
C38_Witness ==
    /\ Len(sOut) = 1 /\ sReceived = 2
    /\ sLast.type \in {"connect_response", "pong", "error"}
    /\ OwnEnvelope(sLast, sOut)

\* C39: the native module of the mobile device never plays two
\* transmissions at once, however two transmitMessage calls interleave with
\* the queued block that sets the flag.
C39_OneNativeTransmission ==
    device = "mobile" => Cardinality(Playing) <= 1

====
